---- MODULE Spec2Model ----
(***************************************************************************)
(* Model of the satori-backend estimate snapshot / project summary store   *)
(* and of the three estimation engines that feed it.                       *)
(*                                                                         *)
(* Tables are functions from primary key to row.  Optional numbers use     *)
(* None (-1); Python dicts with optional keys are records whose absent     *)
(* keys hold None.  Timestamps come from a logical clock: a request takes  *)
(* TicksPerRequest instants and the k-th statement of a request that       *)
(* stamps utcnow() reads the k-th instant after the request's start.       *)
(***************************************************************************)
EXTENDS Integers, Sequences, FiniteSets, TLC

VARIABLES projects, snapshots, summaries, orders, assignments, hrs_estimations,
          logistics_estimations, rates, nextProjectId, nextSnapshotId,
          nextSummaryId, nextOrderId, nextHrsEstimationId,
          nextLogisticsEstimationId, now, resp, tx

vars == <<projects, snapshots, summaries, orders, assignments, hrs_estimations,
          logistics_estimations, rates, nextProjectId, nextSnapshotId,
          nextSummaryId, nextOrderId, nextHrsEstimationId,
          nextLogisticsEstimationId, now, resp, tx>>

\* ---------------------------------------------------------------- bounds
\* Requests served in one run.
MaxRequests == 4
MaxSnapshots == 3
MaxProjects == 2
\* Rows per engine table.
MaxOrders == 2

\* samplers of a request to the HRS engine
MaxStaff == 4

\* ------------------------------------------------------------ basic values
None == -1

\* Clock instants one request spans (more than the statements of any handler).
TicksPerRequest == 8

Modules == {"hrs_estimator", "lab", "logistics"}

\* Project names a request can carry; "" is the empty / missing name.
ProjectNames == {"P"}

RequestNames == ProjectNames \cup {""}

\* Python truthiness of Optional[str]
Truthy(s) == s /= ""

Max(a, b) == IF a >= b THEN a ELSE b

\* A module output dict, reduced to the two keys the store reads.
\* nonempty is bool(outputs); an absent key holds None.
EmptyOutputs == [nonempty |-> FALSE, total_cost |-> None, total_logistics_cost |-> None]

MkOutputs(tc, tlc) == [nonempty |-> TRUE, total_cost |-> tc, total_logistics_cost |-> tlc]

\* dict.get(key)
Get(outputs, key) ==
    IF key = "total_cost" THEN outputs.total_cost ELSE outputs.total_logistics_cost

\* A JSON column: NULL or {"inputs": ..., "outputs": ...}
NullBlob == [isnull |-> TRUE, inputs |-> "", outputs |-> EmptyOutputs]

ModuleData(inputs, outputs) == [isnull |-> FALSE, inputs |-> inputs, outputs |-> outputs]

\* The database as one value, so that helpers can be composed as in the code.
DB == [projects |-> projects, snapshots |-> snapshots, summaries |-> summaries,
       nextProjectId |-> nextProjectId, nextSnapshotId |-> nextSnapshotId,
       nextSummaryId |-> nextSummaryId, now |-> now]

\* Add / replace / remove one row of a table.
Put(table, id, row) == [k \in DOMAIN table \cup {id} |-> IF k = id THEN row ELSE table[k]]

Remove(table, id) == [k \in DOMAIN table \ {id} |-> table[k]]

\* The rows of table with a key in keep.
Restrict(table, keep) == [k \in keep |-> table[k]]

\* ------------------------------------------------------------ arithmetic
\* Floats are exact rationals n/d here; amounts that the code rounds to two
\* decimals, and amounts that are whole hundredths by construction, are
\* integers in hundredths (cents, hundredths of an hour).
Q(n, d) == [n |-> n, d |-> d]

QInt(k) == Q(k, 1)

\* A payload amount given in hundredths.
QHundredths(c) == Q(c, 100)

QAdd(a, b) == Q(a.n * b.d + b.n * a.d, a.d * b.d)

QMul(a, b) == Q(a.n * b.n, a.d * b.d)

\* max(a, 0.0)
QMax0(a) == IF a.n < 0 THEN QInt(0) ELSE a

\* Nearest integer to n/d (d > 0), ties to even: Python's round().
RoundDiv(n, d) ==
    LET q == n \div d
        r == n % d
    IN  IF 2 * r < d THEN q
        ELSE IF 2 * r > d THEN q + 1
        ELSE IF q % 2 = 0 THEN q ELSE q + 1

\* round(a, 2), in hundredths
Round2(a) == RoundDiv(a.n * 100, a.d)

\* math.ceil(n / d) for n >= 0
Ceil(n, d) == (n + d - 1) \div d

RECURSIVE SumSeq(_)
SumSeq(s) == IF s = <<>> THEN 0 ELSE Head(s) + SumSeq(Tail(s))

\* ------------------------------------------------------------ reference data
\* labor_rates: hourly rate per role, in cents
LaborRate ==
    [r \in {"Program Manager", "Project Manager", "Env Scientist", "Env Technician",
            "Accounting", "Administrative"} |->
        CASE r = "Program Manager" -> 13155
          [] r = "Project Manager" -> 10423
          [] r = "Env Scientist" -> 9317
          [] r = "Env Technician" -> 7240
          [] r = "Accounting" -> 9536
          [] r = "Administrative" -> 5480]

\* The rates rows the engines of this model touch: the five (test, turnaround)
\* pairs that HRS_TO_LAB_MAPPING resolves to.  Prices in cents.
Rate(test_id, turn_time_id, price) ==
    [test_id |-> test_id, turn_time_id |-> turn_time_id, price |-> price,
     sample_count |-> None]

SeededRates ==
    <<Rate(1, 1, 920), Rate(2, 1, 1445), Rate(3, 2, 3226), Rate(4, 2, 4031),
      Rate(5, 2, 12702)>>

\* The rates row each HRS sample kind resolves to through service category,
\* test and turnaround; None where a lookup finds nothing ("lead_xrf" names
\* the empty service category).
HRS_TO_LAB_MAPPING ==
    [asbestos |-> 1, lead_xrf |-> None, lead_chips_wipes |-> 2, mold_tape_lift |-> 3,
     mold_spore_trap |-> 4, mold_culturable |-> 5]

\* ------------------------------------------------------------ rows
Project(name, t) ==
    [name |-> name, hrs_estimator_total |-> None, lab_fees_total |-> None,
     logistics_total |-> None, grand_total |-> None, latest_estimate_date |-> None,
     latest_snapshot_id |-> None, created_at |-> t, updated_at |-> t]

EstimateSnapshot(project_id, project_name, is_active, hrs, lab, logi, t) ==
    [project_id |-> project_id, project_name |-> project_name, is_active |-> is_active,
     hrs_estimator_data |-> hrs, lab_fees_data |-> lab, logistics_data |-> logi,
     created_at |-> t, updated_at |-> t]

ProjectEstimateSummary(project_id, project_name, module_name, estimate_total, t) ==
    [project_id |-> project_id, project_name |-> project_name,
     module_name |-> module_name, estimate_total |-> estimate_total, updated_at |-> t]

\* ------------------------------------------------------------ project registry
\* Projects named `name`, most recently updated first: the result of .first().
get_project_by_name_ascending(d, project_name) ==
    LET match == {p \in DOMAIN d.projects : d.projects[p].name = project_name}
    IN  IF ~Truthy(project_name) \/ match = {} THEN None
        ELSE CHOOSE p \in match :
                 \A q \in match : d.projects[p].updated_at <= d.projects[q].updated_at

get_project_by_name(d, project_name) ==
    LET match == {p \in DOMAIN d.projects : d.projects[p].name = project_name}
    IN  IF ~Truthy(project_name) \/ match = {} THEN None
        ELSE CHOOSE p \in match :
                 \A q \in match : d.projects[q].updated_at <= d.projects[p].updated_at

get_or_create_project(d, project_name) ==
    LET found == get_project_by_name(d, project_name)
    IN  IF found /= None THEN [db |-> d, id |-> found]
        ELSE [db |-> [d EXCEPT !.projects = Put(@, d.nextProjectId,
                                                  Project(project_name, d.now + 1)),
                               !.nextProjectId = @ + 1,
                               !.now = @ + 1],
              id |-> d.nextProjectId]

Or0(x) == IF x = None THEN 0 ELSE x

\* update_project_summary assigning every argument, null or not
update_project_summary_overwrite(d, project_id, hrs_estimator_total, lab_fees_total, logistics_total, latest_snapshot_id) ==
    IF project_id \notin DOMAIN d.projects THEN d
    ELSE
      LET p == d.projects[project_id]
          any == \/ Or0(hrs_estimator_total) /= 0
                 \/ Or0(lab_fees_total) /= 0
                 \/ Or0(logistics_total) /= 0
          t == d.now + 1
      IN  [d EXCEPT !.projects[project_id] =
                        [p EXCEPT !.hrs_estimator_total = hrs_estimator_total,
                                  !.lab_fees_total = lab_fees_total,
                                  !.logistics_total = logistics_total,
                                  !.latest_snapshot_id = latest_snapshot_id,
                                  !.grand_total =
                                      IF any THEN Or0(hrs_estimator_total)
                                                  + Or0(lab_fees_total)
                                                  + Or0(logistics_total)
                                      ELSE None,
                                  !.latest_estimate_date = t,
                                  !.updated_at = t],
                    !.now = t]

update_project_summary(d, project_id, hrs_estimator_total, lab_fees_total, logistics_total, latest_snapshot_id) ==
    IF project_id \notin DOMAIN d.projects THEN d
    ELSE
      LET p == d.projects[project_id]
          h == IF hrs_estimator_total /= None THEN hrs_estimator_total
               ELSE p.hrs_estimator_total
          l == IF lab_fees_total /= None THEN lab_fees_total ELSE p.lab_fees_total
          g == IF logistics_total /= None THEN logistics_total ELSE p.logistics_total
          s == IF latest_snapshot_id /= None THEN latest_snapshot_id
               ELSE p.latest_snapshot_id
          any == Or0(h) /= 0 \/ Or0(l) /= 0 \/ Or0(g) /= 0
          t == d.now + 1
      IN  [d EXCEPT !.projects[project_id] =
                        [p EXCEPT !.hrs_estimator_total = h,
                                  !.lab_fees_total = l,
                                  !.logistics_total = g,
                                  !.latest_snapshot_id = s,
                                  !.grand_total = IF any THEN Or0(h) + Or0(l) + Or0(g)
                                                  ELSE None,
                                  !.latest_estimate_date = t,
                                  !.updated_at = t],
                    !.now = t]

\* ------------------------------------------------------------ snapshot store
SnapshotsOf(d, project_id) ==
    {s \in DOMAIN d.snapshots : d.snapshots[s].project_id = project_id}

ActiveOf(d, project_id) ==
    {s \in SnapshotsOf(d, project_id) : d.snapshots[s].is_active}

\* query(...is_active == True).first(): no ORDER BY, so any matching row.
FirstActive(d, project_id) ==
    IF ActiveOf(d, project_id) = {} THEN {None} ELSE ActiveOf(d, project_id)

\* The rows .first() may return for the project a name resolves to.
FirstActiveByName(d, project_name) ==
    IF get_project_by_name(d, project_name) = None THEN {None}
    ELSE FirstActive(d, get_project_by_name(d, project_name))

\* Variant: the module data lands in every slot.
SetSlot_every(snap, module_name, data) ==
    [snap EXCEPT !.hrs_estimator_data = data, !.lab_fees_data = data,
                 !.logistics_data = data]

SetSlot(snap, module_name, data) ==
    IF module_name = "hrs_estimator" THEN [snap EXCEPT !.hrs_estimator_data = data]
    ELSE IF module_name = "lab" THEN [snap EXCEPT !.lab_fees_data = data]
    ELSE IF module_name = "logistics" THEN [snap EXCEPT !.logistics_data = data]
    ELSE snap

Slot(snap, module_name) ==
    IF module_name = "hrs_estimator" THEN snap.hrs_estimator_data
    ELSE IF module_name = "lab" THEN snap.lab_fees_data
    ELSE snap.logistics_data

\* The flush of a changed row stamps updated_at (onupdate); an unchanged row
\* emits no UPDATE.
Touch(old, new, t) == IF new = old THEN old ELSE [new EXCEPT !.updated_at = t]

\* Bulk UPDATE ... SET is_active = false WHERE project_id = ? AND is_active
DeactivateAll(d, project_id) ==
    IF ActiveOf(d, project_id) = {} THEN d
    ELSE [d EXCEPT !.snapshots =
                       [s \in DOMAIN d.snapshots |->
                           IF s \in ActiveOf(d, project_id)
                           THEN [d.snapshots[s] EXCEPT !.is_active = FALSE,
                                                       !.updated_at = d.now + 1]
                           ELSE d.snapshots[s]],
                   !.now = @ + 1]

InsertSnapshot(d, row) ==
    [d EXCEPT !.snapshots = Put(@, d.nextSnapshotId, [row EXCEPT !.created_at = d.now + 1,
                                                                 !.updated_at = d.now + 1]),
              !.nextSnapshotId = @ + 1,
              !.now = @ + 1]

ModuleTotal(module_name, outputs) ==
    IF ~outputs.nonempty THEN None
    ELSE IF module_name \in {"hrs_estimator", "lab"} THEN Get(outputs, "total_cost")
    ELSE IF module_name = "logistics" THEN Get(outputs, "total_logistics_cost")
    ELSE None

\* Variant: the empty-name guard of lines 48-50 is missing.
save_module_to_snapshot_unguarded(d, project_name, module_name, inputs, outputs, active_snapshot) ==
    LET g == get_or_create_project(d, project_name)
        d2 == InsertSnapshot(g.db,
                 SetSlot(EstimateSnapshot(g.id, project_name, TRUE,
                                          NullBlob, NullBlob, NullBlob, 0),
                         module_name, ModuleData(inputs, outputs)))
    IN  [db |-> d2, snapshot_id |-> g.db.nextSnapshotId]

\* active_snapshot is the row returned by the .first() of lines 57-60.
save_module_to_snapshot(d, project_name, module_name, inputs, outputs, active_snapshot) ==
    IF ~Truthy(project_name) THEN [db |-> d, snapshot_id |-> None]
    ELSE
      LET g == get_or_create_project(d, project_name)
          project_id == g.id
          d1 == g.db
          module_data == ModuleData(inputs, outputs)
          d2 == IF active_snapshot /= None
                THEN LET old == d1.snapshots[active_snapshot]
                         new == [SetSlot(old, module_name, module_data)
                                    EXCEPT !.project_name = project_name]
                     IN  IF new = old THEN d1
                         ELSE [d1 EXCEPT !.snapshots[active_snapshot] =
                                             Touch(old, new, d1.now + 1),
                                         !.now = @ + 1]
                ELSE InsertSnapshot(DeactivateAll(d1, project_id),
                         SetSlot(EstimateSnapshot(project_id, project_name, TRUE,
                                                  NullBlob, NullBlob, NullBlob, 0),
                                 module_name, module_data))
          snapshot_id == IF active_snapshot /= None THEN active_snapshot
                         ELSE d1.nextSnapshotId
          total == ModuleTotal(module_name, outputs)
          d3 == update_project_summary(d2, project_id,
                    IF module_name = "hrs_estimator" THEN total ELSE None,
                    IF module_name = "lab" THEN total ELSE None,
                    IF module_name = "logistics" THEN total ELSE None,
                    snapshot_id)
      IN  [db |-> d3, snapshot_id |-> snapshot_id]

\* Variant: the old active snapshot is not marked inactive (line 188 missing).
create_new_snapshot_from_active_keep(d, project_name, active) ==
    LET g == get_or_create_project(d, project_name)
        old == g.db.snapshots[active]
    IN  [db |-> InsertSnapshot(g.db,
                    IF active = None
                    THEN EstimateSnapshot(g.id, project_name, TRUE,
                                          NullBlob, NullBlob, NullBlob, 0)
                    ELSE EstimateSnapshot(g.id, project_name, TRUE,
                                          old.hrs_estimator_data, old.lab_fees_data,
                                          old.logistics_data, 0)),
         snapshot_id |-> g.db.nextSnapshotId]

\* Variant: the new snapshot copies the HRS blob only.
create_new_snapshot_from_active_partial(d, project_name, active) ==
    LET g == get_or_create_project(d, project_name)
        d1 == g.db
        d2 == IF active = None THEN d1
              ELSE [d1 EXCEPT !.snapshots[active] =
                                  [@ EXCEPT !.is_active = FALSE,
                                            !.updated_at = d1.now + 1],
                              !.now = @ + 1]
    IN  [db |-> InsertSnapshot(d2,
                    EstimateSnapshot(g.id, project_name, TRUE,
                                     IF active = None THEN NullBlob
                                     ELSE d1.snapshots[active].hrs_estimator_data,
                                     NullBlob, NullBlob, 0)),
         snapshot_id |-> d2.nextSnapshotId]

\* active is the row returned by the .first() of lines 170-173.
create_new_snapshot_from_active(d, project_name, active) ==
    LET g == get_or_create_project(d, project_name)
        project_id == g.id
        d1 == g.db
    IN  IF active = None
        THEN [db |-> InsertSnapshot(d1, EstimateSnapshot(project_id, project_name, TRUE,
                                                         NullBlob, NullBlob, NullBlob, 0)),
              snapshot_id |-> d1.nextSnapshotId]
        ELSE LET old == d1.snapshots[active]
                 \* one flush: the UPDATE of the old row, then the INSERT
                 d2 == [d1 EXCEPT !.snapshots[active] =
                                      [old EXCEPT !.is_active = FALSE,
                                                  !.updated_at = d1.now + 1],
                                  !.now = @ + 1]
             IN  [db |-> InsertSnapshot(d2,
                            EstimateSnapshot(project_id, project_name, TRUE,
                                             old.hrs_estimator_data, old.lab_fees_data,
                                             old.logistics_data, 0)),
                  snapshot_id |-> d2.nextSnapshotId]

\* Variant: the listing is ordered oldest first.
MostRecent_ascending(d, ids) ==
    {s \in ids : \A o \in ids : d.snapshots[s].updated_at <= d.snapshots[o].updated_at}

\* Heads the ORDER BY updated_at DESC listing may start with (ties in any order).
MostRecent(d, ids) ==
    {s \in ids : \A o \in ids : d.snapshots[o].updated_at <= d.snapshots[s].updated_at}

\* Variant: no successor is elected after the active snapshot is deleted.
Reelect_skipped(d, project_id, first) == d

\* Variant: the head is activated, the rest of the listing is left as it is.
Reelect_head_only(d, project_id, first) ==
    IF first = None \/ d.snapshots[first].is_active THEN d
    ELSE [d EXCEPT !.snapshots[first] = [@ EXCEPT !.is_active = TRUE,
                                                 !.updated_at = d.now + 1],
                   !.now = @ + 1]

\* first is remaining_snapshots[0] of line 405 (None when nothing remains).
Reelect(d, project_id, first) ==
    IF first = None THEN d
    ELSE LET flipped == [s \in DOMAIN d.snapshots |->
                            IF s = first THEN [d.snapshots[s] EXCEPT !.is_active = TRUE]
                            ELSE IF d.snapshots[s].project_id = project_id
                                 THEN [d.snapshots[s] EXCEPT !.is_active = FALSE]
                                 ELSE d.snapshots[s]]
             changed == {s \in DOMAIN d.snapshots : flipped[s] /= d.snapshots[s]}
         IN  IF changed = {} THEN d
             ELSE [d EXCEPT !.snapshots =
                                [s \in DOMAIN d.snapshots |->
                                    IF s \in changed
                                    THEN [flipped[s] EXCEPT !.updated_at = d.now + 1]
                                    ELSE flipped[s]],
                            !.now = @ + 1]

RemainingHeads(d, snapshot_id) ==
    LET project_id == d.snapshots[snapshot_id].project_id
        remaining == SnapshotsOf(d, project_id) \ {snapshot_id}
    IN  IF remaining = {} THEN {None}
        ELSE MostRecent(d, remaining)

\* Variant: the successor is elected whether or not the deleted one was active.
delete_snapshot_always_elects(d, snapshot_id, first) ==
    IF snapshot_id \notin DOMAIN d.snapshots
    THEN [db |-> d, status |-> 404, was_active |-> FALSE, new_active_set |-> FALSE]
    ELSE LET project_id == d.snapshots[snapshot_id].project_id
             d1 == [d EXCEPT !.snapshots = Remove(@, snapshot_id)]
         IN  [db |-> Reelect(d1, project_id, first), status |-> 200,
              was_active |-> d.snapshots[snapshot_id].is_active,
              new_active_set |-> first /= None]

delete_snapshot(d, snapshot_id, first) ==
    IF snapshot_id \notin DOMAIN d.snapshots
    THEN [db |-> d, status |-> 404, was_active |-> FALSE, new_active_set |-> FALSE]
    ELSE LET project_id == d.snapshots[snapshot_id].project_id
             was_active == d.snapshots[snapshot_id].is_active
             d1 == [d EXCEPT !.snapshots = Remove(@, snapshot_id)]
         IN  IF was_active
             THEN [db |-> Reelect(d1, project_id, first), status |-> 200,
                   was_active |-> TRUE, new_active_set |-> first /= None]
             ELSE [db |-> d1, status |-> 200, was_active |-> FALSE,
                   new_active_set |-> FALSE]

\* ------------------------------------------------------------ module summaries
\* The summary row of (project_id, module_name); uq_project_module allows one.
SummaryOf(d, project_id, module_name) ==
    {s \in DOMAIN d.summaries : /\ d.summaries[s].project_id = project_id
                                /\ d.summaries[s].module_name = module_name}

save_or_update_module_summary(d, project_name, module_name, estimate_total) ==
    IF ~Truthy(project_name) THEN d
    ELSE
      LET g == get_or_create_project(d, project_name)
          d1 == g.db
          found == SummaryOf(d1, g.id, module_name)
          d2 == IF found /= {}
                THEN LET s == CHOOSE x \in found : TRUE
                         old == d1.summaries[s]
                         new == [old EXCEPT !.estimate_total = estimate_total,
                                            !.project_name = project_name]
                     IN  IF new = old THEN d1
                         ELSE [d1 EXCEPT !.summaries[s] = [new EXCEPT !.updated_at = d1.now + 1],
                                         !.now = @ + 1]
                ELSE [d1 EXCEPT !.summaries =
                                    Put(@, d1.nextSummaryId,
                                        ProjectEstimateSummary(g.id, project_name, module_name,
                                                               estimate_total, d1.now + 1)),
                                !.nextSummaryId = @ + 1,
                                !.now = @ + 1]
      IN  update_project_summary(d2, g.id,
              IF module_name = "hrs_estimator" THEN estimate_total ELSE None,
              IF module_name = "lab" THEN estimate_total ELSE None,
              IF module_name = "logistics" THEN estimate_total ELSE None,
              None)

\* ------------------------------------------------------------ requests
\* Request payloads: inputs is the request body, outputs the computed result.
Payloads == {[inputs |-> "a", outputs |-> EmptyOutputs],
             [inputs |-> "a", outputs |-> MkOutputs(1, 2)],
             [inputs |-> "b", outputs |-> MkOutputs(0, 0)]}

SnapshotIds == 1..MaxSnapshots

\* A request is served only while the id sequences and the clock are in range.
Bounded(d) ==
    /\ d.nextProjectId <= MaxProjects + 1
    /\ d.nextSnapshotId <= MaxSnapshots + 1
    /\ now < MaxRequests * TicksPerRequest

\* db.commit()
Commit(d) ==
    /\ Bounded(d)
    /\ projects' = d.projects
    /\ snapshots' = d.snapshots
    /\ summaries' = d.summaries
    /\ nextProjectId' = d.nextProjectId
    /\ nextSnapshotId' = d.nextSnapshotId
    /\ nextSummaryId' = d.nextSummaryId
    /\ now' = now + TicksPerRequest

\* A table after a request raised before db.commit(): the rows the session
\* had added or flushed are dropped with it.
Uncommitted_kept(committed, pending) == pending

Uncommitted(committed, pending) == committed

\* What the last request returned.
Resp(op, status) ==
    [op |-> op, status |-> status, snapshot_id |-> None, was_active |-> FALSE,
     new_active_set |-> FALSE, project_id |-> None]

EngineTablesUnchanged ==
    UNCHANGED <<orders, assignments, hrs_estimations, logistics_estimations, rates,
                nextOrderId, nextHrsEstimationId, nextLogisticsEstimationId>>

\* A request served alone, in one transaction, by a store endpoint.
StoreRequest == EngineTablesUnchanged /\ UNCHANGED tx

\* ------------------------------------------------------------ transactions
\* Concurrent requests, each in its own session (READ COMMITTED): a session
\* reads the committed rows overlaid with its own pending writes; its writes
\* reach the tables at its commit.
Requests == {"r1", "r2"}

\* The sessions of the connection pool; one more than the racing requests.
Sessions == Requests \cup {"r3"}

\* loaded: the Project object as first loaded by the session (identity map);
\* summary / summary_row: the ProjectEstimateSummary object the session loaded;
\* w_projects / w_snapshots / w_summaries: flushed, uncommitted writes, per
\* primary key; call: the operation the session serves.
IdleTx ==
    [pc |-> "idle", call |-> "save_module", project_name |-> "", module_name |-> "",
     inputs |-> "", outputs |-> EmptyOutputs, project_id |-> None,
     loaded |-> Project("", 0), active |-> None, deactivated |-> {}, new_id |-> None,
     summary |-> None, summary_row |-> ProjectEstimateSummary(None, "", "", None, 0),
     w_projects |-> <<>>, w_snapshots |-> <<>>, w_summaries |-> <<>>]

\* A pending INSERT of row, or a pending UPDATE of the columns cols to row's values.
PendingInsert(row) == [insert |-> TRUE, cols |-> DOMAIN row, row |-> row]

PendingUpdate(cols, row) == [insert |-> FALSE, cols |-> cols, row |-> row]

\* UPDATE ... SET cols applied to the current version of the row.
ApplyCols(base, cols, row) == [c \in DOMAIN base |-> IF c \in cols THEN row[c] ELSE base[c]]

ChangedCols(old, new) == {c \in DOMAIN old : old[c] /= new[c]}

\* The rows of a table as a session sees them.
Overlay(table, w) ==
    [k \in DOMAIN table \cup {i \in DOMAIN w : w[i].insert} |->
        IF k \notin DOMAIN w THEN table[k]
        ELSE IF w[k].insert THEN w[k].row
        ELSE ApplyCols(table[k], w[k].cols, w[k].row)]

ViewDB(t) ==
    [DB EXCEPT !.projects = Overlay(projects, t.w_projects),
               !.snapshots = Overlay(snapshots, t.w_snapshots),
               !.summaries = Overlay(summaries, t.w_summaries)]

\* Record in w that the session changed row id from old (as it sees it) to new.
Write(w, id, old, new) ==
    IF id \in DOMAIN w
    THEN Put(w, id, [w[id] EXCEPT !.cols = @ \cup ChangedCols(old, new), !.row = new])
    ELSE Put(w, id, PendingUpdate(ChangedCols(old, new), new))

\* Rows on which another session holds a row lock (it has written them).
LockedByOthers(r, field) ==
    UNION {DOMAIN tx[o][field] : o \in Sessions \ {r}}

\* Variant: a conflicting active row makes the INSERT a no-op at commit.
TxApply_unique(d, t) ==
    [d EXCEPT !.projects = Overlay(d.projects, t.w_projects),
              !.summaries = Overlay(d.summaries, t.w_summaries),
              !.snapshots =
                  Overlay(d.snapshots,
                          [k \in {i \in DOMAIN t.w_snapshots :
                                     ~(/\ t.w_snapshots[i].insert
                                       /\ \E o \in DOMAIN d.snapshots :
                                             /\ d.snapshots[o].is_active
                                             /\ d.snapshots[o].project_id
                                                    = t.w_snapshots[i].row.project_id)}
                              |-> t.w_snapshots[k]])]

\* COMMIT: the session's pending writes reach the tables.  The schema has no
\* uniqueness constraint on (project_id, is_active): nothing is rejected.
TxApply(d, t) ==
    [d EXCEPT !.projects = Overlay(d.projects, t.w_projects),
              !.snapshots = Overlay(d.snapshots, t.w_snapshots),
              !.summaries = Overlay(d.summaries, t.w_summaries)]

\* A caller of save_module_to_snapshot, followed by its commit.
SaveModule(project_name, module_name, inputs, outputs) ==
    \E active \in FirstActiveByName(DB, project_name) :
        LET r == save_module_to_snapshot(DB, project_name, module_name, inputs,
                                         outputs, active)
        IN  /\ Commit(r.db)
            /\ resp' = [Resp("save_module", 200) EXCEPT !.snapshot_id = r.snapshot_id]
            /\ StoreRequest

\* POST /projects/{project_name}/snapshots/duplicate
duplicate_active_snapshot(project_name) ==
    \E active \in FirstActiveByName(DB, project_name) :
        LET r == create_new_snapshot_from_active(DB, project_name, active)
        IN  /\ Commit(r.db)
            /\ resp' = [Resp("duplicate_active", 200) EXCEPT
                            !.snapshot_id = r.snapshot_id]
            /\ StoreRequest

\* DELETE /snapshots/{snapshot_id}
DeleteSnapshot(snapshot_id) ==
    \E first \in (IF snapshot_id \in DOMAIN snapshots
                  THEN RemainingHeads(DB, snapshot_id) ELSE {None}) :
        LET r == delete_snapshot(DB, snapshot_id, first)
        IN  /\ Commit(r.db)
            /\ resp' = [Resp("delete", r.status) EXCEPT
                            !.snapshot_id = snapshot_id,
                            !.was_active = r.was_active,
                            !.new_active_set = r.new_active_set]
            /\ StoreRequest

\* POST /projects/
create_project(name) ==
    /\ Commit([DB EXCEPT !.projects = Put(@, nextProjectId, Project(name, now + 1)),
                         !.nextProjectId = @ + 1,
                         !.now = @ + 1])
    /\ resp' = Resp("create_project", 200)
    /\ StoreRequest

Init ==
    /\ projects = <<>>
    /\ snapshots = <<>>
    /\ summaries = <<>>
    /\ orders = <<>>
    /\ assignments = <<>>
    /\ hrs_estimations = <<>>
    /\ logistics_estimations = <<>>
    /\ nextProjectId = 1
    /\ nextSnapshotId = 1
    /\ nextSummaryId = 1
    /\ rates = SeededRates
    /\ nextOrderId = 1
    /\ nextHrsEstimationId = 1
    /\ nextLogisticsEstimationId = 1
    /\ now = 0
    /\ resp = Resp("init", 200)
    /\ tx = [r \in Sessions |-> IdleTx]

Next ==
    \/ \E n \in ProjectNames, m \in Modules, p \in Payloads :
           SaveModule(n, m, p.inputs, p.outputs)
    \/ SaveModule("", "lab", "a", MkOutputs(1, 2))
    \/ \E n \in ProjectNames : duplicate_active_snapshot(n)
    \/ \E s \in SnapshotIds : DeleteSnapshot(s)
    \/ \E n \in ProjectNames : create_project(n)

Spec == Init /\ [][Next]_vars

\* ------------------------------------------------------------ racing saves
\* save_module_to_snapshot and its caller's commit, one statement per step.

\* lines 48-54: get_or_create_project
TxBegin(r, project_name, module_name, inputs, outputs) ==
    /\ tx[r].pc = "idle"
    /\ Truthy(project_name)
    /\ LET g == get_or_create_project(ViewDB(tx[r]), project_name)
           created == g.id \notin DOMAIN projects
       IN  /\ g.db.nextProjectId <= MaxProjects + 1
           /\ nextProjectId' = g.db.nextProjectId
           /\ now' = g.db.now
           /\ tx' = [tx EXCEPT ![r] =
                        [IdleTx EXCEPT !.pc = "query",
                                       !.project_name = project_name,
                                       !.module_name = module_name,
                                       !.inputs = inputs, !.outputs = outputs,
                                       !.project_id = g.id,
                                       !.loaded = g.db.projects[g.id],
                                       !.w_projects =
                                           IF created
                                           THEN Put(<<>>, g.id,
                                                    PendingInsert(g.db.projects[g.id]))
                                           ELSE <<>>]]
    /\ UNCHANGED <<projects, snapshots, summaries, nextSnapshotId, nextSummaryId, resp>>
    /\ EngineTablesUnchanged

\* lines 57-60: the query for the active snapshot
TxQuery(r) ==
    /\ tx[r].pc = "query"
    /\ \E a \in FirstActive(ViewDB(tx[r]), tx[r].project_id) :
           tx' = [tx EXCEPT ![r].active = a,
                            ![r].pc = IF a /= None THEN "update" ELSE "deactivate"]
    /\ UNCHANGED <<projects, snapshots, summaries, nextProjectId, nextSnapshotId,
                   nextSummaryId, now, resp>>
    /\ EngineTablesUnchanged

\* lines 62-81: write the slot of the active snapshot, flush
TxUpdate(r) ==
    /\ tx[r].pc = "update"
    /\ tx[r].active \notin LockedByOthers(r, "w_snapshots")
    /\ LET t == tx[r]
           old == ViewDB(t).snapshots[t.active]
           new == [SetSlot(old, t.module_name, ModuleData(t.inputs, t.outputs))
                      EXCEPT !.project_name = t.project_name]
       IN  IF new = old
           THEN /\ tx' = [tx EXCEPT ![r].pc = "summary"]
                /\ now' = now
           ELSE /\ tx' = [tx EXCEPT ![r].pc = "summary",
                                    ![r].w_snapshots =
                                        Write(@, t.active, old,
                                              [new EXCEPT !.updated_at = now + 1])]
                /\ now' = now + 1
    /\ UNCHANGED <<projects, snapshots, summaries, nextProjectId, nextSnapshotId,
                   nextSummaryId, resp>>
    /\ EngineTablesUnchanged

\* lines 85-88: the bulk UPDATE of the rows that are active as of this statement
TxDeactivate(r) ==
    /\ tx[r].pc = "deactivate"
    /\ LET t == tx[r]
           d == ViewDB(t)
           hit == ActiveOf(d, t.project_id)
           d1 == DeactivateAll(d, t.project_id)
       IN  /\ hit \cap LockedByOthers(r, "w_snapshots") = {}
           /\ tx' = [tx EXCEPT ![r].pc = "insert",
                               ![r].deactivated = hit,
                               ![r].w_snapshots =
                                   [k \in DOMAIN @ \cup hit |->
                                       IF k \in hit
                                       THEN PendingUpdate({"is_active", "updated_at"},
                                                          d1.snapshots[k])
                                       ELSE @[k]]]
           /\ now' = d1.now
    /\ UNCHANGED <<projects, snapshots, summaries, nextProjectId, nextSnapshotId,
                   nextSummaryId, resp>>
    /\ EngineTablesUnchanged

\* lines 91-117: INSERT of the new active snapshot, flush
TxInsert(r) ==
    /\ tx[r].pc = "insert"
    /\ nextSnapshotId <= MaxSnapshots
    /\ LET t == tx[r]
           d1 == InsertSnapshot(ViewDB(t),
                     SetSlot(EstimateSnapshot(t.project_id, t.project_name, TRUE,
                                              NullBlob, NullBlob, NullBlob, 0),
                             t.module_name, ModuleData(t.inputs, t.outputs)))
       IN  /\ tx' = [tx EXCEPT ![r].pc = "summary",
                               ![r].new_id = nextSnapshotId,
                               ![r].w_snapshots =
                                   Put(@, nextSnapshotId,
                                       PendingInsert(d1.snapshots[nextSnapshotId]))]
           /\ nextSnapshotId' = d1.nextSnapshotId
           /\ now' = d1.now
    /\ UNCHANGED <<projects, snapshots, summaries, nextProjectId, nextSummaryId, resp>>
    /\ EngineTablesUnchanged

\* lines 119-141: update_project_summary on the session's Project object
TxSummary(r) ==
    /\ tx[r].pc = "summary"
    /\ tx[r].project_id \notin LockedByOthers(r, "w_projects")
    /\ LET t == tx[r]
           snapshot_id == IF t.active /= None THEN t.active ELSE t.new_id
           total == ModuleTotal(t.module_name, t.outputs)
           d0 == [ViewDB(t) EXCEPT !.projects = Put(@, t.project_id, t.loaded)]
           d1 == update_project_summary(d0, t.project_id,
                     IF t.module_name = "hrs_estimator" THEN total ELSE None,
                     IF t.module_name = "lab" THEN total ELSE None,
                     IF t.module_name = "logistics" THEN total ELSE None,
                     snapshot_id)
           new == d1.projects[t.project_id]
       IN  /\ t.project_id \in DOMAIN ViewDB(t).projects
           /\ tx' = [tx EXCEPT ![r].pc = "commit",
                               ![r].loaded = new,
                               ![r].w_projects = Write(@, t.project_id, t.loaded, new)]
           /\ now' = d1.now
    /\ UNCHANGED <<projects, snapshots, summaries, nextProjectId, nextSnapshotId,
                   nextSummaryId, resp>>
    /\ EngineTablesUnchanged

\* the caller's db.commit()
TxCommit(r) ==
    /\ tx[r].pc = "commit"
    /\ LET d == TxApply(DB, tx[r])
       IN  /\ projects' = d.projects
           /\ snapshots' = d.snapshots
           /\ summaries' = d.summaries
    /\ tx' = [tx EXCEPT ![r].pc = "done", ![r].w_projects = <<>>,
                        ![r].w_snapshots = <<>>, ![r].w_summaries = <<>>]
    /\ resp' = [Resp(tx[r].call, 200) EXCEPT
                    !.snapshot_id = IF tx[r].active /= None THEN tx[r].active
                                    ELSE tx[r].new_id]
    /\ UNCHANGED <<nextProjectId, nextSnapshotId, nextSummaryId, now>>
    /\ EngineTablesUnchanged

NextRace ==
    \/ \E n \in ProjectNames : create_project(n)
    \/ \E r \in Requests, n \in ProjectNames, m \in Modules, p \in Payloads :
           TxBegin(r, n, m, p.inputs, p.outputs)
    \/ \E r \in Requests : TxQuery(r)
    \/ \E r \in Requests : TxUpdate(r)
    \/ \E r \in Requests : TxDeactivate(r)
    \/ \E r \in Requests : TxInsert(r)
    \/ \E r \in Requests : TxSummary(r)
    \/ \E r \in Requests : TxCommit(r)

SpecRace == Init /\ [][NextRace]_vars

\* ------------------------------------------------------------ deletes after racing saves
\* No request is in flight.
Quiet == \A r \in Sessions : tx[r].pc \in {"idle", "done"}

\* A project is created, saves of one lab estimate to it race on every
\* session, and snapshots are deleted between the races.
NextRaceDelete ==
    \/ \E n \in ProjectNames : projects = <<>> /\ Quiet /\ create_project(n)
    \/ \E r \in Sessions, n \in ProjectNames :
           projects /= <<>> /\ TxBegin(r, n, "lab", "a", MkOutputs(1, 2))
    \/ \E r \in Sessions : TxQuery(r)
    \/ \E r \in Sessions : TxUpdate(r)
    \/ \E r \in Sessions : TxDeactivate(r)
    \/ \E r \in Sessions : TxInsert(r)
    \/ \E r \in Sessions : TxSummary(r)
    \/ \E r \in Sessions : TxCommit(r)
    \/ \E s \in SnapshotIds : Quiet /\ DeleteSnapshot(s)

SpecRaceDelete == Init /\ [][NextRaceDelete]_vars

\* ------------------------------------------------------------ racing summaries
\* save_or_update_module_summary and its caller's commit, one statement per step.
SummaryOutputs == {MkOutputs(1, 2), MkOutputs(0, 0)}

\* Variant: the table lacks uq_project_module.
SummaryConflict_unchecked(project_id, module_name) == {}

\* The committed rows an INSERT of (project_id, module_name) would duplicate.
SummaryConflict(project_id, module_name) == SummaryOf(DB, project_id, module_name)

\* line 48: get_or_create_project
SumBegin(r, project_name, module_name, outputs) ==
    /\ tx[r].pc \in {"idle", "done"}
    /\ Truthy(project_name)
    /\ now < MaxRequests
    /\ LET g == get_or_create_project(DB, project_name)
           created == g.id \notin DOMAIN projects
       IN  /\ g.db.nextProjectId <= MaxProjects + 1
           /\ nextProjectId' = g.db.nextProjectId
           /\ now' = g.db.now
           /\ tx' = [tx EXCEPT ![r] =
                        [IdleTx EXCEPT !.pc = "sum_query",
                                       !.call = "save_summary",
                                       !.project_name = project_name,
                                       !.module_name = module_name,
                                       !.outputs = outputs,
                                       !.project_id = g.id,
                                       !.loaded = g.db.projects[g.id],
                                       !.w_projects =
                                           IF created
                                           THEN Put(<<>>, g.id,
                                                    PendingInsert(g.db.projects[g.id]))
                                           ELSE <<>>]]
    /\ UNCHANGED <<projects, snapshots, summaries, nextSnapshotId, nextSummaryId, resp>>
    /\ EngineTablesUnchanged

\* lines 52-55: the query for the summary row of the pair
SumQuery(r) ==
    /\ tx[r].pc = "sum_query"
    /\ LET d == ViewDB(tx[r])
           found == SummaryOf(d, tx[r].project_id, tx[r].module_name)
       IN  IF found = {}
           THEN tx' = [tx EXCEPT ![r].pc = "sum_write"]
           ELSE \E s \in found :
                    tx' = [tx EXCEPT ![r].pc = "sum_write", ![r].summary = s,
                                     ![r].summary_row = d.summaries[s]]
    /\ UNCHANGED <<projects, snapshots, summaries, nextProjectId, nextSnapshotId,
                   nextSummaryId, now, resp>>
    /\ EngineTablesUnchanged

\* lines 57-73 and the flush before the next query: UPDATE of the columns the
\* session changed on the row it loaded, or INSERT of a new row.  An INSERT
\* waits for a session holding the same key uncommitted, and raises
\* IntegrityError (the request fails, its writes are rolled back) when a
\* committed row has the key.
SumWrite(r) ==
    /\ tx[r].pc = "sum_write"
    /\ LET t == tx[r]
           estimate_total == ModuleTotal(t.module_name, t.outputs)
           new == [t.summary_row EXCEPT !.estimate_total = estimate_total,
                                        !.project_name = t.project_name]
           row == ProjectEstimateSummary(t.project_id, t.project_name, t.module_name,
                                         estimate_total, now + 1)
           held == {k \in LockedByOthers(r, "w_summaries") :
                       \E o \in Sessions \ {r} :
                           /\ k \in DOMAIN tx[o].w_summaries
                           /\ tx[o].w_summaries[k].row.project_id = t.project_id
                           /\ tx[o].w_summaries[k].row.module_name = t.module_name}
       IN  IF t.summary /= None
           THEN IF new = t.summary_row
                THEN /\ tx' = [tx EXCEPT ![r].pc = "summary"]
                     /\ UNCHANGED <<now, nextSummaryId, resp>>
                ELSE /\ t.summary \notin LockedByOthers(r, "w_summaries")
                     /\ tx' = [tx EXCEPT ![r].pc = "summary",
                                         ![r].w_summaries =
                                             Put(@, t.summary,
                                                 PendingUpdate(
                                                     ChangedCols(t.summary_row, new)
                                                         \cup {"updated_at"},
                                                     [new EXCEPT !.updated_at = now + 1]))]
                     /\ now' = now + 1
                     /\ UNCHANGED <<nextSummaryId, resp>>
           ELSE /\ held = {}
                /\ nextSummaryId' = nextSummaryId + 1
                /\ now' = now + 1
                /\ IF SummaryConflict(t.project_id, t.module_name) /= {}
                   THEN /\ tx' = [tx EXCEPT ![r] = [IdleTx EXCEPT !.pc = "done"]]
                        /\ resp' = Resp("save_summary", 500)
                   ELSE /\ tx' = [tx EXCEPT ![r].pc = "summary",
                                            ![r].w_summaries =
                                                Put(@, nextSummaryId, PendingInsert(row))]
                        /\ UNCHANGED resp
    /\ UNCHANGED <<projects, snapshots, summaries, nextProjectId, nextSnapshotId>>
    /\ EngineTablesUnchanged

\* The whole call and its commit, served while no other request is in flight.
SaveSummaryAlone(project_name, module_name, outputs) ==
    /\ \A r \in Sessions : tx[r].pc \in {"idle", "done"}
    /\ now < MaxRequests
    /\ LET d == save_or_update_module_summary(DB, project_name, module_name,
                                              ModuleTotal(module_name, outputs))
       IN  /\ d.nextProjectId <= MaxProjects + 1
           /\ projects' = d.projects
           /\ summaries' = d.summaries
           /\ nextProjectId' = d.nextProjectId
           /\ nextSummaryId' = d.nextSummaryId
           /\ now' = d.now
    /\ resp' = Resp("save_summary", 200)
    /\ UNCHANGED <<snapshots, nextSnapshotId, tx>>
    /\ EngineTablesUnchanged

NextSummaryRace ==
    \/ \E r \in Requests, n \in ProjectNames, m \in Modules, o \in SummaryOutputs :
           SumBegin(r, n, m, o)
    \/ \E r \in Requests : SumQuery(r)
    \/ \E r \in Requests : SumWrite(r)
    \/ \E r \in Requests : TxSummary(r)
    \/ \E r \in Requests : TxCommit(r)
    \/ \E n \in ProjectNames, m \in Modules, o \in SummaryOutputs :
           SaveSummaryAlone(n, m, o)

SpecSummaryRace == Init /\ [][NextSummaryRace]_vars

\* ------------------------------------------------------------ lab fees engine
\* Request bodies by name; the name stands for the serialized body
\* (order.model_dump()) where the body is stored.  order_details is the nested
\* dict flattened in iteration order; quantities and hours are whole numbers.
OrderLine(test_id, turn_time_id, quantity) ==
    [test_id |-> test_id, turn_time_id |-> turn_time_id, quantity |-> quantity]

StaffData(role, count, hours_per_person) ==
    [role |-> role, count |-> count, hours_per_person |-> hours_per_person]

LabFeesOrderCreate ==
    [lab_priced |-> [project_name |-> "P",
                     order_details |-> <<OrderLine(1, 1, 2), OrderLine(1, 2, 3)>>,
                     staff_assignments |-> <<StaffData("Env Scientist", 1, 2)>>],
     lab_empty |-> [project_name |-> "P", order_details |-> <<>>,
                    staff_assignments |-> <<>>],
     lab_unnamed |-> [project_name |-> "", order_details |-> <<OrderLine(2, 1, 1)>>,
                      staff_assignments |-> <<>>],
     lab_bad_role |-> [project_name |-> "P", order_details |-> <<OrderLine(1, 1, 1)>>,
                       staff_assignments |-> <<StaffData("Env Technician", 1, 1),
                                               StaffData("Intern", 1, 1)>>]]

\* db.query(Rate).filter(test_id, turn_time_id): the matching rows
FindRate(test_id, turn_time_id) ==
    {r \in DOMAIN rates : /\ rates[r].test_id = test_id
                          /\ rates[r].turn_time_id = turn_time_id}

\* price of the first matching rate (the matches of one pair share one price)
PriceOf(line) ==
    rates[CHOOSE r \in FindRate(line.test_id, line.turn_time_id) : TRUE].price

\* The lines before the first one without a Rate, as if it ended the loop.
Priced_until_missing(order_details) ==
    LET missing == {i \in DOMAIN order_details :
                       FindRate(order_details[i].test_id,
                                order_details[i].turn_time_id) = {}}
    IN  IF missing = {} THEN order_details
        ELSE SubSeq(order_details, 1,
                    (CHOOSE i \in missing : \A j \in missing : i <= j) - 1)

Priced(order_details) ==
    SelectSeq(order_details, LAMBDA l : FindRate(l.test_id, l.turn_time_id) /= {})

LabFeesStaffAssignment(order_id, staff_data, t) ==
    LET total_hours == staff_data.count * staff_data.hours_per_person
        hourly_rate == LaborRate[staff_data.role]
    IN  [order_id |-> order_id, role |-> staff_data.role, count |-> staff_data.count,
         hours_per_person |-> staff_data.hours_per_person, total_hours |-> total_hours,
         hourly_rate |-> hourly_rate, total_cost |-> total_hours * hourly_rate,
         created_at |-> t]

\* POST /orders/
create_lab_fees_order_of(body, order) ==
    LET priced == Priced(order.order_details)
        total_samples == SumSeq([i \in DOMAIN priced |-> priced[i].quantity])
        total_lab_fees_cost ==
            SumSeq([i \in DOMAIN priced |-> PriceOf(priced[i]) * priced[i].quantity])
        staff == order.staff_assignments
        invalid == \E i \in DOMAIN staff : staff[i].role \notin DOMAIN LaborRate
        rows == [i \in DOMAIN staff |->
                    LabFeesStaffAssignment(nextOrderId, staff[i], now + 1)]
        total_staff_labor_cost == SumSeq([i \in DOMAIN rows |-> rows[i].total_cost])
        total_cost == total_lab_fees_cost + total_staff_labor_cost
        new_order == [project_name |-> order.project_name,
                      total_samples |-> total_samples,
                      total_lab_fees_cost |-> total_lab_fees_cost,
                      total_staff_labor_cost |-> total_staff_labor_cost,
                      total_cost |-> total_cost, created_at |-> now + 1]
    IN  /\ nextOrderId <= MaxOrders
        /\ nextOrderId' = nextOrderId + 1
        /\ UNCHANGED <<hrs_estimations, logistics_estimations, rates,
                       nextHrsEstimationId, nextLogisticsEstimationId, tx>>
        /\ IF invalid
           THEN \* HTTPException(400) before the first commit: the session is
                \* dropped with the flushed order and the staff rows added so far
                LET bad == CHOOSE i \in DOMAIN staff :
                               /\ staff[i].role \notin DOMAIN LaborRate
                               /\ \A j \in 1..(i - 1) : staff[j].role \in DOMAIN LaborRate
                    flushed == [project_name |-> order.project_name,
                                total_samples |-> total_samples,
                                total_lab_fees_cost |-> total_lab_fees_cost,
                                total_staff_labor_cost |-> 0,
                                total_cost |-> total_lab_fees_cost,
                                created_at |-> now + 1]
                    added == [i \in 1..(bad - 1) |-> rows[i]]
                IN  /\ Commit(DB)
                    /\ orders' = Uncommitted(orders, Put(orders, nextOrderId, flushed))
                    /\ assignments' =
                           Uncommitted(assignments, Put(assignments, nextOrderId, added))
                    /\ resp' = Resp("create_lab_fees_order", 400)
           ELSE LET d1 == save_or_update_module_summary([DB EXCEPT !.now = @ + 1],
                              order.project_name, "lab", total_cost)
                IN  \E active \in FirstActiveByName(d1, order.project_name) :
                        LET r == save_module_to_snapshot(d1, order.project_name, "lab",
                                     body, MkOutputs(total_cost, None), active)
                        IN  /\ Commit(r.db)
                            /\ orders' = Put(orders, nextOrderId, new_order)
                            /\ assignments' = Put(assignments, nextOrderId, rows)
                            /\ resp' = [Resp("create_lab_fees_order", 200) EXCEPT
                                            !.snapshot_id = r.snapshot_id]

create_lab_fees_order(body) == create_lab_fees_order_of(body, LabFeesOrderCreate[body])

\* POST /orders/ when the datastore raises in the summary or snapshot step
\* (lines 302-343): the order and its staff rows were committed by the first
\* db.commit() at line 297, the second unit of work is dropped with the session.
create_lab_fees_order_interrupted(body) ==
    LET order == LabFeesOrderCreate[body]
        staff == order.staff_assignments
        rows == [i \in DOMAIN staff |->
                    LabFeesStaffAssignment(nextOrderId, staff[i], now + 1)]
        priced == Priced(order.order_details)
        total_lab_fees_cost ==
            SumSeq([i \in DOMAIN priced |-> PriceOf(priced[i]) * priced[i].quantity])
        total_staff_labor_cost == SumSeq([i \in DOMAIN rows |-> rows[i].total_cost])
        new_order == [project_name |-> order.project_name,
                      total_samples |->
                          SumSeq([i \in DOMAIN priced |-> priced[i].quantity]),
                      total_lab_fees_cost |-> total_lab_fees_cost,
                      total_staff_labor_cost |-> total_staff_labor_cost,
                      total_cost |-> total_lab_fees_cost + total_staff_labor_cost,
                      created_at |-> now + 1]
    IN  /\ nextOrderId <= MaxOrders
        /\ \A i \in DOMAIN staff : staff[i].role \in DOMAIN LaborRate
        /\ Truthy(order.project_name)
        /\ nextOrderId' = nextOrderId + 1
        /\ orders' = Put(orders, nextOrderId, new_order)
        /\ assignments' = Put(assignments, nextOrderId, rows)
        /\ Commit(DB)
        /\ resp' = Resp("create_lab_fees_order", 500)
        /\ UNCHANGED <<hrs_estimations, logistics_estimations, rates,
                       nextHrsEstimationId, nextLogisticsEstimationId, tx>>

\* ------------------------------------------------------------ HRS engine
\* minutes per sample
DEFAULTS == [asbestos |-> 15, xrf |-> 3, lead |-> 10, mold |-> 20]

\* A table that stops at two samplers.
derive_efficiency_factor_two(staff_count) ==
    IF staff_count <= 1 THEN 100 ELSE 70

\* in hundredths
derive_efficiency_factor(staff_count) ==
    IF staff_count <= 1 THEN 100
    ELSE IF staff_count = 2 THEN 70
    ELSE 60

AsbestosLineIn(actuals, bulks_per_unit) ==
    [actuals |-> actuals, bulks_per_unit |-> bulks_per_unit]

LeadLineIn(xrf_shots, chips_wipes) == [xrf_shots |-> xrf_shots, chips_wipes |-> chips_wipes]

MoldLineIn(tape_lift, spore_trap, culturable) ==
    [tape_lift |-> tape_lift, spore_trap |-> spore_trap, culturable |-> culturable]

\* Sample counts are whole numbers, minutes whole minutes; efficiency_factor,
\* orm (its hours) and manual_labor_hours are in hundredths; selected_role ""
\* is the absent role; manual_labor_hours is a dict (role -> hours).
HRSEstimationCreateDefaults ==
    [project_name |-> "P", override_minutes_asbestos |-> None,
     override_minutes_xrf |-> None, override_minutes_lead |-> None,
     override_minutes_mold |-> None, field_staff_count |-> 1,
     efficiency_factor |-> None, asbestos_lines |-> <<>>, lead_lines |-> <<>>,
     mold_lines |-> <<>>, orm |-> None, selected_role |-> "",
     manual_labor_hours |-> <<>>]

HRSEstimationCreate ==
    [hrs_costed |-> [HRSEstimationCreateDefaults EXCEPT
                        !.field_staff_count = 3,
                        !.asbestos_lines = <<AsbestosLineIn(4, 3)>>,
                        !.lead_lines = <<LeadLineIn(20, 6)>>,
                        !.selected_role = "Env Scientist"],
     hrs_unnamed |-> [HRSEstimationCreateDefaults EXCEPT
                        !.project_name = "",
                        !.mold_lines = <<MoldLineIn(3, 0, 3)>>],
     hrs_manual |-> [HRSEstimationCreateDefaults EXCEPT
                        !.efficiency_factor = 0,
                        !.override_minutes_asbestos = 30,
                        !.asbestos_lines = <<AsbestosLineIn(2, 1)>>,
                        !.orm = 200,
                        !.selected_role = "Env Technician",
                        !.manual_labor_hours =
                            [r \in {"Accounting", "Intern"} |-> 100]],
     hrs_bad_role |-> [HRSEstimationCreateDefaults EXCEPT
                        !.asbestos_lines = <<AsbestosLineIn(1, 1)>>,
                        !.selected_role = "Intern"]]

RECURSIVE SumFun(_)
SumFun(f) ==
    IF DOMAIN f = {} THEN 0
    ELSE LET k == CHOOSE x \in DOMAIN f : TRUE
         IN  f[k] + SumFun([x \in DOMAIN f \ {k} |-> f[x]])

\* Rate.sample_count taken from the estimation totals, for the sample kinds
\* with a non-zero total whose lab rate is found.
update_lab_fees_from_hrs(table, hrs_estimation) ==
    LET mapping_values ==
            [asbestos |-> hrs_estimation.total_plm,
             lead_xrf |-> hrs_estimation.total_xrf_shots,
             lead_chips_wipes |-> hrs_estimation.total_chips_wipes,
             mold_tape_lift |-> hrs_estimation.total_tape_lift,
             mold_spore_trap |-> hrs_estimation.total_spore_trap,
             mold_culturable |-> hrs_estimation.total_culturable]
        updated == {key \in DOMAIN HRS_TO_LAB_MAPPING :
                       /\ mapping_values[key] /= 0
                       /\ HRS_TO_LAB_MAPPING[key] \in DOMAIN table}
    IN  [r \in DOMAIN table |->
            IF \E key \in updated : HRS_TO_LAB_MAPPING[key] = r
            THEN [table[r] EXCEPT !.sample_count =
                     mapping_values[CHOOSE key \in updated : HRS_TO_LAB_MAPPING[key] = r]]
            ELSE table[r]]

\* Manual labor costs charging a role without a LaborRate row at rate 0.
ManualLaborCosts_every(manual_hours) ==
    [role \in DOMAIN manual_hours |->
        IF role \in DOMAIN LaborRate
        THEN RoundDiv(manual_hours[role] * LaborRate[role], 100)
        ELSE 0]

\* lines 260-267: the cost of each manual role that has a LaborRate row; a
\* role without one is skipped (continue).
ManualLaborCosts(manual_hours) ==
    [role \in DOMAIN manual_hours \cap DOMAIN LaborRate |->
        RoundDiv(manual_hours[role] * LaborRate[role], 100)]

\* The estimation header as computed by create_estimate, lines 124-276.
HRSEstimation(payload, t) ==
    LET eff == IF payload.efficiency_factor /= None THEN payload.efficiency_factor
               ELSE derive_efficiency_factor(payload.field_staff_count)
        al == payload.asbestos_lines
        ll == payload.lead_lines
        ml == payload.mold_lines
        total_plm == SumSeq([i \in DOMAIN al |-> al[i].actuals * al[i].bulks_per_unit])
        total_xrf == SumSeq([i \in DOMAIN ll |-> ll[i].xrf_shots])
        total_chips == SumSeq([i \in DOMAIN ll |-> ll[i].chips_wipes])
        total_tape == SumSeq([i \in DOMAIN ml |-> ml[i].tape_lift])
        total_spore == SumSeq([i \in DOMAIN ml |-> ml[i].spore_trap])
        total_cult == SumSeq([i \in DOMAIN ml |-> ml[i].culturable])
        orm_hours == IF payload.orm /= None THEN payload.orm ELSE 0
        m_asb == IF payload.override_minutes_asbestos /= None
                 THEN payload.override_minutes_asbestos ELSE DEFAULTS.asbestos
        m_xrf == IF payload.override_minutes_xrf /= None
                 THEN payload.override_minutes_xrf ELSE DEFAULTS.xrf
        m_lead == IF payload.override_minutes_lead /= None
                  THEN payload.override_minutes_lead ELSE DEFAULTS.lead
        m_mold == IF payload.override_minutes_mold /= None
                  THEN payload.override_minutes_mold ELSE DEFAULTS.mold
        \* field hours before staffing efficiency, in minutes
        field_minutes == m_asb * total_plm + m_xrf * total_xrf + m_lead * total_chips
                         + m_mold * (total_tape + total_spore + total_cult)
        h_orm == QHundredths(orm_hours)
        field_hours_base == Q(field_minutes, 60)
        field_hours_adj == QMul(field_hours_base, QHundredths(eff))
        suggested_hours_final == Round2(QAdd(field_hours_adj, h_orm))
        selected_role == payload.selected_role
        calculated_cost ==
            IF Truthy(selected_role) /\ selected_role \in DOMAIN LaborRate
            THEN RoundDiv(suggested_hours_final * LaborRate[selected_role], 100)
            ELSE None
        manual_hours == payload.manual_labor_hours
        manual_costs == ManualLaborCosts(manual_hours)
    IN  [project_name |-> payload.project_name,
         field_staff_count |-> payload.field_staff_count,
         efficiency_factor |-> eff,
         asbestos_lines |-> al, lead_lines |-> ll, mold_lines |-> ml,
         total_plm |-> total_plm, total_xrf_shots |-> total_xrf,
         total_chips_wipes |-> total_chips, total_tape_lift |-> total_tape,
         total_spore_trap |-> total_spore, total_culturable |-> total_cult,
         orm_hours |-> orm_hours,
         suggested_hours_base |-> Round2(QAdd(field_hours_base, h_orm)),
         suggested_hours_final |-> suggested_hours_final,
         selected_role |-> selected_role, calculated_cost |-> calculated_cost,
         manual_labor_costs |-> manual_costs,
         total_cost |-> Or0(calculated_cost) + SumFun(manual_costs),
         created_at |-> t]

\* POST /estimate (HRS)
create_estimate_of(payload) ==
    LET est == HRSEstimation(payload, now + 1)
    IN  /\ nextHrsEstimationId <= MaxOrders
        /\ now < MaxRequests * TicksPerRequest
        /\ now' = now + TicksPerRequest
        /\ UNCHANGED <<projects, snapshots, summaries, orders, assignments,
                       logistics_estimations, nextProjectId, nextSnapshotId,
                       nextSummaryId, nextOrderId, nextLogisticsEstimationId, tx>>
        /\ IF payload.field_staff_count < 1
           THEN \* rejected by the request schema (ge=1)
                /\ UNCHANGED <<hrs_estimations, rates, nextHrsEstimationId>>
                /\ resp' = Resp("create_estimate", 422)
           ELSE IF Truthy(payload.selected_role)
                   /\ payload.selected_role \notin DOMAIN LaborRate
           THEN \* HTTPException(400) after the flush of the header and its lines
                /\ nextHrsEstimationId' = nextHrsEstimationId + 1
                /\ hrs_estimations' =
                       Uncommitted(hrs_estimations,
                                   Put(hrs_estimations, nextHrsEstimationId,
                                       [est EXCEPT !.selected_role = "",
                                                   !.manual_labor_costs = <<>>,
                                                   !.total_cost = None]))
                /\ UNCHANGED rates
                /\ resp' = Resp("create_estimate", 400)
           ELSE /\ nextHrsEstimationId' = nextHrsEstimationId + 1
                /\ hrs_estimations' = Put(hrs_estimations, nextHrsEstimationId, est)
                /\ rates' = update_lab_fees_from_hrs(rates, est)
                /\ resp' = Resp("create_estimate", 200)

create_estimate(body) == create_estimate_of(HRSEstimationCreate[body])

\* ------------------------------------------------------------ logistics engine
\* cents per day
DEFAULT_ANCHORAGE_FEE_PER_DAY == 4500

DEFAULT_DRIVING_SPEED_MPH == 55

\* location.strip().lower(), on the locations of this model
StripLower ==
    [l \in {"", "Anchorage", " ANCHORAGE ", "anchorage", "ANCHORAGE", "aNcHoRaGe",
            "Fairbanks"} |->
        CASE l = "" -> ""
          [] l = "Anchorage" -> "anchorage"
          [] l = " ANCHORAGE " -> "anchorage"
          [] l = "anchorage" -> "anchorage"
          [] l = "ANCHORAGE" -> "anchorage"
          [] l = "aNcHoRaGe" -> "anchorage"
          [] l = "Fairbanks" -> "fairbanks"]

\* A comparison with the literal name, case and spaces included.
_is_anchorage_exact(location) == location = "Anchorage"

_is_anchorage(location) ==
    IF ~Truthy(location) THEN FALSE ELSE StripLower[location] = "anchorage"

\* hourly rate of a role, 0 when the role has no LaborRate row
_rate_for_role(role_name) ==
    IF Truthy(role_name) /\ role_name \in DOMAIN LaborRate THEN LaborRate[role_name] ELSE 0

\* Payload blocks.  Money is in cents, miles and days are whole numbers, hours
\* and rate_multiplier are in hundredths; an absent block has present = FALSE
\* and an absent string is "".
RoundtripDrivingIn ==
    [present |-> FALSE, project_location |-> "", one_way_miles |-> 0,
     drive_time_hours |-> None, project_duration_days |-> 1, mpg |-> None,
     cost_per_gallon |-> None, cost_per_mile |-> None, anchorage_flat_fee |-> None]

DailyDrivingIn ==
    [present |-> FALSE, site_location |-> "", daily_miles |-> 0,
     daily_drive_time_hours |-> None, project_duration_days |-> 1, mpg |-> None,
     cost_per_gallon |-> None, cost_per_mile |-> None]

FlightsIn ==
    [present |-> FALSE, num_tickets |-> 0, roundtrip_cost_per_ticket |-> 0,
     flight_time_hours_one_way |-> 0, has_overnight |-> FALSE,
     layover_cost_per_night |-> None, layover_rooms |-> None]

RentalIn ==
    [present |-> FALSE, daily_rate |-> None, weekly_rate |-> None,
     monthly_rate |-> None, rental_period_type |-> "", rental_days |-> 0,
     fuel_cost_estimate |-> None]

LodgingIn ==
    [present |-> FALSE, night_cost_with_taxes |-> 0, project_duration_days |-> 0,
     num_staff |-> 0]

StaffLineIn(role, count) == [role |-> role, count |-> count]

LogisticsEstimationCreateDefaults ==
    [project_name |-> "P", site_access_mode |-> "driving", is_local_project |-> FALSE,
     use_client_vehicle |-> FALSE, professional_role |-> "", num_staff |-> 0,
     staff |-> <<>>, rate_multiplier |-> 100, per_diem_rate |-> 0,
     roundtrip_driving |-> RoundtripDrivingIn, daily_driving |-> DailyDrivingIn,
     flights |-> FlightsIn, rental |-> RentalIn, lodging |-> LodgingIn]


\* Python truthiness of an optional number
TruthyNum(x) == x /= None /\ x /= 0

\* Staff normalization, lines 62-76
StaffList(payload) ==
    IF payload.staff /= <<>>
    THEN SelectSeq(payload.staff, LAMBDA st : st.count > 0)
    ELSE IF Truthy(payload.professional_role) /\ payload.num_staff > 0
    THEN <<StaffLineIn(payload.professional_role, payload.num_staff)>>
    ELSE <<>>

\* lines 78-81, in hundredths
RateMultiplier(payload) ==
    IF payload.rate_multiplier > 0 THEN payload.rate_multiplier ELSE 100

\* Per-role dicts (staff_costs), added key by key.
MergeCosts(a, b) ==
    [r \in DOMAIN a \cup DOMAIN b |->
        (IF r \in DOMAIN a THEN a[r] ELSE 0) + (IF r \in DOMAIN b THEN b[r] ELSE 0)]

NoLabor == [hours |-> QInt(0), cost |-> QInt(0), by_role |-> <<>>]

\* The labor of one travel leg of hours_per_person hours: total hours, total
\* cost in cents and the per-role costs it adds to staff_costs.  With a staff
\* list each role's cost is rounded to the cent; without one (legacy single
\* role, num_staff) the total stays unrounded.  The same loop is written for
\* roundtrip driving, daily driving and flights.
StaffLabor(payload, staff_list, hours_per_person) ==
    LET m == RateMultiplier(payload)
        h == hours_per_person
    IN  IF staff_list /= <<>>
        THEN LET role_cost(i) ==
                     RoundDiv(h.n * staff_list[i].count
                                  * _rate_for_role(staff_list[i].role) * m, h.d * 100)
                 roles == {staff_list[i].role : i \in DOMAIN staff_list}
             IN  [hours |-> QMul(h, QInt(SumSeq([i \in DOMAIN staff_list |->
                                                    staff_list[i].count]))),
                  cost |-> QInt(SumSeq([i \in DOMAIN staff_list |-> role_cost(i)])),
                  by_role |-> [r \in roles |->
                                  SumSeq([i \in DOMAIN staff_list |->
                                             IF staff_list[i].role = r
                                             THEN role_cost(i) ELSE 0])]]
        ELSE LET count == Max(payload.num_staff, 0)
                 rate == IF Truthy(payload.professional_role)
                         THEN _rate_for_role(payload.professional_role) ELSE 0
                 total_cost == Q(h.n * count * rate * m, h.d * 100)
             IN  [hours |-> QMul(h, QInt(count)),
                  cost |-> total_cost,
                  by_role |-> IF Truthy(payload.professional_role)
                              THEN [r \in {payload.professional_role} |->
                                       RoundDiv(total_cost.n, total_cost.d)]
                              ELSE <<>>]

\* Cost per mile, or the MPG fallback, in cents (lines 143-150, 205-211)
VehicleCost(miles, cost_per_mile, mpg, cost_per_gallon) ==
    IF cost_per_mile /= None THEN QInt(miles * Max(cost_per_mile, 0))
    ELSE IF TruthyNum(mpg) /\ TruthyNum(cost_per_gallon)
    THEN (IF mpg > 0 THEN Q(miles * Max(cost_per_gallon, 0), mpg) ELSE QInt(0))
    ELSE QInt(0)

\* One-way drive time in hours: as given, or from the miles at the default speed
OneWayHours(drive_time_hours, miles_per_day) ==
    IF (drive_time_hours = None \/ drive_time_hours <= 0) /\ miles_per_day > 0
    THEN Q(miles_per_day, DEFAULT_DRIVING_SPEED_MPH * 2)
    ELSE IF drive_time_hours = None THEN QInt(0)
    ELSE QMax0(QHundredths(drive_time_hours))

\* Roundtrip driving, lines 117-187
RoundtripDriving(payload, staff_list) ==
    LET rt == payload.roundtrip_driving
    IN  IF ~(payload.site_access_mode = "driving" /\ rt.present)
        THEN [days |-> 0, miles |-> 0, anchorage |-> FALSE, vehicle_cost |-> QInt(0),
              labor |-> NoLabor]
        ELSE
          LET roundtrip_days == Max(rt.project_duration_days, 1)
              one_way_miles == Max(rt.one_way_miles, 0)
              roundtrip_miles_per_day == one_way_miles * 2
              roundtrip_miles == roundtrip_miles_per_day * roundtrip_days
              anchorage_driving == _is_anchorage(rt.project_location)
              flat_fee == IF rt.anchorage_flat_fee /= None THEN rt.anchorage_flat_fee
                          ELSE DEFAULT_ANCHORAGE_FEE_PER_DAY
              one_way == OneWayHours(rt.drive_time_hours, roundtrip_miles_per_day)
          IN  [days |-> roundtrip_days,
               miles |-> roundtrip_miles,
               anchorage |-> anchorage_driving,
               vehicle_cost |->
                   IF anchorage_driving THEN QInt(flat_fee * roundtrip_days)
                   ELSE VehicleCost(roundtrip_miles, rt.cost_per_mile, rt.mpg,
                                    rt.cost_per_gallon),
               labor |-> StaffLabor(payload, staff_list,
                                    QMul(one_way, QInt(2 * roundtrip_days)))]

\* Daily driving, lines 189-248
DailyDriving(payload, staff_list, anchorage_driving, roundtrip_days) ==
    LET dd == payload.daily_driving
    IN  IF ~dd.present
        THEN [miles |-> 0, vehicle_cost |-> QInt(0), labor |-> NoLabor]
        ELSE
          LET daily_days ==
                  Max(IF dd.project_duration_days /= 0 THEN dd.project_duration_days
                      ELSE IF roundtrip_days /= 0 THEN roundtrip_days ELSE 1, 1)
              daily_miles_per_day == Max(dd.daily_miles, 0)
              daily_miles_total == daily_miles_per_day * daily_days
              one_way == OneWayHours(dd.daily_drive_time_hours, daily_miles_per_day)
          IN  [miles |-> daily_miles_total,
               vehicle_cost |->
                   IF ~anchorage_driving /\ ~_is_anchorage(dd.site_location)
                   THEN VehicleCost(daily_miles_total, dd.cost_per_mile, dd.mpg,
                                    dd.cost_per_gallon)
                   ELSE QInt(0),
               labor |-> StaffLabor(payload, staff_list,
                                    QMul(one_way, QInt(2 * daily_days)))]

\* Flights, lines 275-336; amounts in cents
Flights(payload, staff_list) ==
    LET f == payload.flights
    IN  IF ~(payload.site_access_mode = "flight" /\ f.present /\ ~payload.is_local_project)
        THEN [ticket_cost |-> 0, layover_cost |-> 0, labor |-> NoLabor]
        ELSE [ticket_cost |-> Max(f.num_tickets, 0) * Max(f.roundtrip_cost_per_ticket, 0),
              layover_cost |->
                  IF f.has_overnight /\ TruthyNum(f.layover_cost_per_night)
                     /\ TruthyNum(f.layover_rooms)
                  THEN Max(f.layover_cost_per_night, 0) * Max(f.layover_rooms, 0)
                  ELSE 0,
              labor |-> StaffLabor(payload, staff_list,
                            QHundredths(Max(f.flight_time_hours_one_way, 0) * 2 + 150))]

\* Rental vehicles priced whether or not a client vehicle is used.
Rental_any_vehicle(payload) ==
    LET r == payload.rental
    IN  IF ~(/\ payload.site_access_mode = "flight"
             /\ ~payload.is_local_project
             /\ r.present)
        THEN [base_cost |-> 0, fuel_cost |-> 0]
        ELSE [base_cost |-> Ceil(Max(r.rental_days, 0), 7) * Max(Or0(r.weekly_rate), 0),
              fuel_cost |-> Max(Or0(r.fuel_cost_estimate), 0)]

\* Rental vehicles, lines 337-372; amounts in cents
Rental(payload) ==
    LET r == payload.rental
    IN  IF ~(/\ payload.site_access_mode = "flight"
             /\ ~payload.is_local_project
             /\ ~payload.use_client_vehicle
             /\ r.present)
        THEN [base_cost |-> 0, fuel_cost |-> 0]
        ELSE
          LET rental_days == Max(r.rental_days, 0)
          IN  [base_cost |->
                   IF r.rental_period_type = "daily" /\ r.daily_rate /= None
                   THEN rental_days * Max(r.daily_rate, 0)
                   ELSE IF r.rental_period_type = "weekly" /\ r.weekly_rate /= None
                   THEN Ceil(rental_days, 7) * Max(r.weekly_rate, 0)
                   ELSE IF r.rental_period_type = "monthly" /\ r.monthly_rate /= None
                   THEN Ceil(rental_days, 30) * Max(r.monthly_rate, 0)
                   ELSE 0,
               fuel_cost |-> Max(Or0(r.fuel_cost_estimate), 0)]

\* Per diem paid to the staff of every non-local project, lodged or not.
Lodging_per_diem_always(payload, staff_list) ==
    LET l == payload.lodging
        staff == SumSeq([i \in DOMAIN staff_list |-> staff_list[i].count])
    IN  IF payload.is_local_project THEN [room_cost |-> 0, per_diem |-> 0]
        ELSE [room_cost |-> IF l.present
                            THEN staff * Max(l.night_cost_with_taxes, 0)
                                 * Max(l.project_duration_days, 0)
                            ELSE 0,
              per_diem |-> Max(payload.per_diem_rate, 0) * staff
                           * Max(l.project_duration_days, 1)]

\* Lodging and per diem, lines 374-399; amounts in cents
Lodging(payload, staff_list) ==
    LET l == payload.lodging
    IN  IF ~(~payload.is_local_project /\ l.present)
        THEN [room_cost |-> 0, per_diem |-> 0]
        ELSE
          LET days == Max(l.project_duration_days, 0)
              staff_for_lodging ==
                  IF staff_list /= <<>>
                  THEN SumSeq([i \in DOMAIN staff_list |-> staff_list[i].count])
                  ELSE Max(IF l.num_staff /= 0 THEN l.num_staff ELSE payload.num_staff, 0)
          IN  [room_cost |-> staff_for_lodging * Max(l.night_cost_with_taxes, 0) * days,
               per_diem |-> IF staff_for_lodging > 0 /\ days > 0
                            THEN Max(payload.per_diem_rate, 0) * staff_for_lodging * days
                            ELSE 0]

\* A Q amount in cents, rounded to the cent
RoundCents(a) == RoundDiv(a.n, a.d)

\* The estimation row as computed by create_logistics_estimate, lines 62-421.
LogisticsEstimation(payload, t) ==
    LET staff_list == StaffList(payload)
        total_staff == SumSeq([i \in DOMAIN staff_list |-> staff_list[i].count])
        rt == RoundtripDriving(payload, staff_list)
        dd == DailyDriving(payload, staff_list, rt.anchorage, rt.days)
        fl == Flights(payload, staff_list)
        rn == Rental(payload)
        lg == Lodging(payload, staff_list)
        flights_on == /\ payload.site_access_mode = "flight"
                      /\ payload.flights.present
                      /\ ~payload.is_local_project
        total_driving_fuel_cost == RoundCents(QAdd(rt.vehicle_cost, dd.vehicle_cost))
        total_driving_labor_cost == RoundCents(QAdd(rt.labor.cost, dd.labor.cost))
        total_driving_cost == total_driving_fuel_cost + total_driving_labor_cost
        total_flight_cost ==
            RoundCents(QAdd(QInt(fl.ticket_cost + fl.layover_cost), fl.labor.cost))
        total_rental_cost == rn.base_cost + rn.fuel_cost
        staff_costs == MergeCosts(MergeCosts(rt.labor.by_role, dd.labor.by_role),
                                  fl.labor.by_role)
    IN  [project_name |-> payload.project_name,
         site_access_mode |-> IF Truthy(payload.site_access_mode)
                              THEN payload.site_access_mode ELSE "driving",
         is_local_project |-> payload.is_local_project,
         use_client_vehicle |-> payload.use_client_vehicle,
         professional_role |->
             IF ~Truthy(payload.professional_role) /\ Len(staff_list) = 1
             THEN staff_list[1].role ELSE payload.professional_role,
         num_staff |-> IF payload.num_staff /= 0 THEN payload.num_staff ELSE total_staff,
         staff_breakdown |-> staff_list,
         staff_labor_costs |-> staff_costs,
         total_staff_count |-> total_staff,
         rate_multiplier |-> RateMultiplier(payload),
         per_diem_rate |-> payload.per_diem_rate,
         roundtrip_driving_miles |-> rt.miles,
         daily_driving_miles |-> dd.miles,
         total_driving_miles |-> rt.miles + dd.miles,
         roundtrip_driving_labor_hours |-> Round2(rt.labor.hours),
         daily_driving_labor_hours |-> Round2(dd.labor.hours),
         total_driving_labor_hours |-> Round2(QAdd(rt.labor.hours, dd.labor.hours)),
         total_driving_fuel_cost |-> total_driving_fuel_cost,
         total_driving_labor_cost |-> total_driving_labor_cost,
         total_driving_cost |-> total_driving_cost,
         total_flight_ticket_cost |-> fl.ticket_cost,
         total_flight_labor_hours |-> Round2(fl.labor.hours),
         total_flight_labor_cost |-> RoundCents(fl.labor.cost),
         total_layover_room_cost |-> fl.layover_cost,
         total_flight_cost |-> IF flights_on THEN total_flight_cost ELSE 0,
         total_rental_base_cost |-> rn.base_cost,
         total_rental_fuel_cost |-> rn.fuel_cost,
         total_rental_cost |-> total_rental_cost,
         total_lodging_room_cost |-> lg.room_cost,
         total_per_diem_cost |-> lg.per_diem,
         total_logistics_cost |-> total_driving_cost
                                  + (IF flights_on THEN total_flight_cost ELSE 0)
                                  + total_rental_cost + lg.room_cost + lg.per_diem,
         created_at |-> t]

LogisticsEstimationCreate ==
    [logi_drive |->
        [LogisticsEstimationCreateDefaults EXCEPT
            !.staff = <<StaffLineIn("Env Scientist", 2)>>,
            !.roundtrip_driving =
                [RoundtripDrivingIn EXCEPT !.present = TRUE,
                                           !.project_location = "Fairbanks",
                                           !.one_way_miles = 55,
                                           !.project_duration_days = 2,
                                           !.cost_per_mile = 50]],
     logi_anchorage |->
        [LogisticsEstimationCreateDefaults EXCEPT
            !.professional_role = "Env Technician",
            !.num_staff = 1,
            !.roundtrip_driving =
                [RoundtripDrivingIn EXCEPT !.present = TRUE,
                                           !.project_location = " ANCHORAGE ",
                                           !.one_way_miles = 11,
                                           !.cost_per_mile = 50],
            !.daily_driving =
                [DailyDrivingIn EXCEPT !.present = TRUE,
                                       !.site_location = "Fairbanks",
                                       !.daily_miles = 22,
                                       !.mpg = 20,
                                       !.cost_per_gallon = 400]],
     logi_flight |->
        [LogisticsEstimationCreateDefaults EXCEPT
            !.project_name = "",
            !.site_access_mode = "flight",
            !.staff = <<StaffLineIn("Env Scientist", 1), StaffLineIn("Intern", 1)>>,
            !.per_diem_rate = 6000,
            !.flights = [FlightsIn EXCEPT !.present = TRUE, !.num_tickets = 2,
                                          !.roundtrip_cost_per_ticket = 40000,
                                          !.flight_time_hours_one_way = 125],
            !.rental = [RentalIn EXCEPT !.present = TRUE,
                                        !.rental_period_type = "weekly",
                                        !.weekly_rate = 30000, !.rental_days = 8],
            !.lodging = [LodgingIn EXCEPT !.present = TRUE,
                                          !.night_cost_with_taxes = 15000,
                                          !.project_duration_days = 3]],
     logi_local |->
        [LogisticsEstimationCreateDefaults EXCEPT
            !.site_access_mode = "flight",
            !.is_local_project = TRUE,
            !.num_staff = 2,
            !.flights = [FlightsIn EXCEPT !.present = TRUE, !.num_tickets = 1,
                                          !.roundtrip_cost_per_ticket = 40000],
            !.lodging = [LodgingIn EXCEPT !.present = TRUE,
                                          !.night_cost_with_taxes = 15000,
                                          !.project_duration_days = 3]]]

\* POST /estimate (logistics)
create_logistics_estimate_of(payload) ==
    /\ nextLogisticsEstimationId <= MaxOrders
    /\ now < MaxRequests * TicksPerRequest
    /\ now' = now + TicksPerRequest
    /\ nextLogisticsEstimationId' = nextLogisticsEstimationId + 1
    /\ logistics_estimations' =
           Put(logistics_estimations, nextLogisticsEstimationId,
               LogisticsEstimation(payload, now + 1))
    /\ resp' = Resp("create_logistics_estimate", 200)
    /\ UNCHANGED <<projects, snapshots, summaries, orders, assignments,
                   hrs_estimations, rates, nextProjectId, nextSnapshotId,
                   nextSummaryId, nextOrderId, nextHrsEstimationId, tx>>

create_logistics_estimate(body) ==
    create_logistics_estimate_of(LogisticsEstimationCreate[body])

\* The three engines, with the project registry and the snapshot endpoints.
NextEngines ==
    \/ \E body \in DOMAIN LabFeesOrderCreate : create_lab_fees_order(body)
    \/ \E body \in DOMAIN HRSEstimationCreate : create_estimate(body)
    \/ \E body \in DOMAIN LogisticsEstimationCreate : create_logistics_estimate(body)
    \/ \E n \in ProjectNames : duplicate_active_snapshot(n)
    \/ \E s \in SnapshotIds : DeleteSnapshot(s)

SpecEngines == Init /\ [][NextEngines]_vars

\* ------------------------------------------------------------ project totals
\* Totals and snapshot ids a caller passes to update_project_summary.
SummaryTotals == {0, 500}

SummarySnapshotIds == {None, 1}

SummaryArgs(h, l, g, s) ==
    [hrs_estimator_total |-> h, lab_fees_total |-> l, logistics_total |-> g,
     latest_snapshot_id |-> s]

\* The calls the code makes: save_module_to_snapshot passes at most one
\* module's total and the snapshot id, save_or_update_module_summary one
\* module's total alone, save_and_close_project the snapshot id alone; and one
\* call that passes two totals.
SummaryCalls ==
    UNION {{SummaryArgs(t, None, None, s), SummaryArgs(None, t, None, s),
            SummaryArgs(None, None, t, s)} :
               t \in SummaryTotals, s \in SummarySnapshotIds}
    \cup {SummaryArgs(None, None, None, s) : s \in SummarySnapshotIds}
    \cup {SummaryArgs(500, 0, None, None)}

\* update_project_summary followed by the caller's commit
UpdateSummary(project_id, hrs_estimator_total, lab_fees_total, logistics_total, latest_snapshot_id) ==
    /\ project_id \in DOMAIN projects
    /\ Commit(update_project_summary(DB, project_id, hrs_estimator_total,
                                     lab_fees_total, logistics_total,
                                     latest_snapshot_id))
    /\ resp' = Resp("update_project_summary", 200)
    /\ StoreRequest

\* The project registry: projects are created and their totals updated.
NextSummary ==
    \/ \E n \in ProjectNames : create_project(n)
    \/ \E p \in DOMAIN projects, c \in SummaryCalls :
           UpdateSummary(p, c.hrs_estimator_total, c.lab_fees_total,
                         c.logistics_total, c.latest_snapshot_id)

SpecSummary == Init /\ [][NextSummary]_vars

\* ------------------------------------------------------------ lab requests
\* order_details by name: (test, turnaround) pairs with and without a Rate
Baskets ==
    [none |-> <<>>,
     priced |-> <<OrderLine(1, 1, 2)>>,
     unpriced |-> <<OrderLine(1, 2, 3)>>,
     unknown_test |-> <<OrderLine(9, 9, 4)>>,
     mixed |-> <<OrderLine(1, 2, 3), OrderLine(1, 1, 2)>>,
     many |-> <<OrderLine(2, 1, 1), OrderLine(3, 2, 2), OrderLine(4, 1, 5),
               OrderLine(5, 2, 1)>>]

\* staff_assignments by name
Crews ==
    [nobody |-> <<>>,
     one |-> <<StaffData("Env Scientist", 1, 2)>>,
     two |-> <<StaffData("Env Technician", 2, 3), StaffData("Accounting", 1, 1)>>]

\* The request body made of a basket and a crew, and its name.
LabOrder(basket, crew) ==
    [project_name |-> "P", order_details |-> Baskets[basket],
     staff_assignments |-> Crews[crew]]

LabOrderName(basket, crew) == basket \o "/" \o crew

\* The lab engine on its own.
NextLab ==
    \E basket \in DOMAIN Baskets, crew \in DOMAIN Crews :
        create_lab_fees_order_of(LabOrderName(basket, crew), LabOrder(basket, crew))

SpecLab == Init /\ [][NextLab]_vars

\* ------------------------------------------------------------ HRS requests
\* Requests with and without sample lines, with no role, a role that has a
\* LaborRate row or one that has none, and manual hours for roles of both kinds.
HrsPayloads ==
    {[HRSEstimationCreateDefaults EXCEPT
         !.asbestos_lines = lines,
         !.selected_role = role,
         !.manual_labor_hours = [r \in manual |-> 100]] :
        lines \in {<<>>, <<AsbestosLineIn(10, 2)>>, <<AsbestosLineIn(4, 3)>>},
        role \in {"", "Env Technician", "Intern"},
        manual \in {{}, {"Accounting"}, {"Intern"}, {"Accounting", "Intern"}}}

\* Requests of 20 asbestos samples (5 field hours) for 1..MaxStaff samplers,
\* without an efficiency_factor and with one of 0 or 0.5.
EfficiencyPayloads ==
    {[HRSEstimationCreateDefaults EXCEPT
         !.asbestos_lines = <<AsbestosLineIn(10, 2)>>,
         !.field_staff_count = staff_count,
         !.efficiency_factor = efficiency_factor] :
        staff_count \in 1..MaxStaff, efficiency_factor \in {None, 0, 50}}

\* The HRS engine on its own.
NextHrs ==
    \E payload \in HrsPayloads \cup EfficiencyPayloads : create_estimate_of(payload)

SpecHrs == Init /\ [][NextHrs]_vars

\* ------------------------------------------------------------ logistics requests
RentalPeriodTypes == {"daily", "weekly", "monthly"}

\* Flight, rental and lodging blocks all supplied with positive quantities, in
\* every combination of access mode, local project and client vehicle, with a
\* known and an unknown rental period type.
ModePayloads ==
    {[LogisticsEstimationCreateDefaults EXCEPT
         !.site_access_mode = mode,
         !.is_local_project = is_local,
         !.use_client_vehicle = client_vehicle,
         !.staff = <<StaffLineIn("Env Scientist", 1)>>,
         !.per_diem_rate = 6000,
         !.flights = [FlightsIn EXCEPT !.present = TRUE, !.num_tickets = 2,
                                       !.roundtrip_cost_per_ticket = 40000,
                                       !.flight_time_hours_one_way = 125],
         !.rental = [RentalIn EXCEPT !.present = TRUE,
                                     !.rental_period_type = period,
                                     !.daily_rate = 5000, !.weekly_rate = 30000,
                                     !.monthly_rate = 90000, !.rental_days = 8],
         !.lodging = [LodgingIn EXCEPT !.present = TRUE,
                                       !.night_cost_with_taxes = 15000,
                                       !.project_duration_days = 3]] :
        mode \in {"driving", "flight"}, is_local \in BOOLEAN,
        client_vehicle \in BOOLEAN, period \in {"weekly", "hourly"}}

\* cost_per_mile, mpg, cost_per_gallon, one_way_miles, project_duration_days
\* of a roundtrip block
RoundtripCosts ==
    {<<50, None, None, 55, 2>>, <<1, 20, 400, 55, 1>>, <<50, 20, 400, 0, 3>>,
     <<200, None, None, 110, 2>>}

\* Driving-mode roundtrips to Anchorage, written in several letter cases, with
\* cost_per_mile and anchorage_flat_fee supplied.
AnchoragePayloads ==
    {[LogisticsEstimationCreateDefaults EXCEPT
         !.staff = <<StaffLineIn("Env Technician", 1)>>,
         !.roundtrip_driving =
             [RoundtripDrivingIn EXCEPT !.present = TRUE,
                                        !.project_location = location,
                                        !.project_duration_days = c[5],
                                        !.cost_per_mile = c[1],
                                        !.mpg = c[2],
                                        !.cost_per_gallon = c[3],
                                        !.one_way_miles = c[4],
                                        !.anchorage_flat_fee = 3000]] :
        location \in {"Anchorage", "anchorage", "ANCHORAGE", "aNcHoRaGe"},
        c \in RoundtripCosts}

\* Driving-mode requests with a roundtrip block and a daily block, each with
\* its own location.
DailyPayloads ==
    {[LogisticsEstimationCreateDefaults EXCEPT
         !.staff = <<StaffLineIn("Env Technician", 1)>>,
         !.roundtrip_driving =
             [RoundtripDrivingIn EXCEPT !.present = TRUE,
                                        !.project_location = project_location,
                                        !.one_way_miles = 11,
                                        !.cost_per_mile = 50],
         !.daily_driving =
             [DailyDrivingIn EXCEPT !.present = TRUE,
                                    !.site_location = site_location,
                                    !.daily_miles = 22,
                                    !.project_duration_days = 2,
                                    !.cost_per_mile = IF by_mile THEN 50 ELSE None,
                                    !.mpg = IF by_mile THEN None ELSE 20,
                                    !.cost_per_gallon = IF by_mile THEN None ELSE 400]] :
        project_location \in {"Fairbanks", "Anchorage"},
        site_location \in {"Fairbanks", "Anchorage"}, by_mile \in BOOLEAN}

\* Non-local requests without a lodging block, with one of zero nights and
\* with one of three nights, with and without staff and per diem rate.
LodgingPayloads ==
    {[LogisticsEstimationCreateDefaults EXCEPT
         !.site_access_mode = mode,
         !.staff = staff,
         !.per_diem_rate = per_diem_rate,
         !.lodging = lodging] :
        mode \in {"driving", "flight"},
        staff \in {<<>>, <<StaffLineIn("Env Technician", 2)>>},
        per_diem_rate \in {0, 6000},
        lodging \in {LodgingIn,
                     [LodgingIn EXCEPT !.present = TRUE,
                                       !.night_cost_with_taxes = 15000],
                     [LodgingIn EXCEPT !.present = TRUE,
                                       !.night_cost_with_taxes = 15000,
                                       !.project_duration_days = 3]}}

LogisticsPayloads ==
    ModePayloads \cup AnchoragePayloads \cup DailyPayloads \cup LodgingPayloads

\* The logistics engine on its own.
NextLogistics ==
    \E payload \in LogisticsPayloads : create_logistics_estimate_of(payload)

SpecLogistics == Init /\ [][NextLogistics]_vars

\* The lab engine with a datastore that may fail after the order is committed.
NextFaults ==
    \/ \E body \in DOMAIN LabFeesOrderCreate : create_lab_fees_order(body)
    \/ \E body \in DOMAIN LabFeesOrderCreate : create_lab_fees_order_interrupted(body)
    \/ \E n \in ProjectNames : duplicate_active_snapshot(n)
    \/ \E s \in SnapshotIds : DeleteSnapshot(s)

SpecFaults == Init /\ [][NextFaults]_vars

\* ------------------------------------------------------------ project lifecycle
\* Variant: the rows are matched by the denormalized project_name.
discard_project_by_name(d, project_name) ==
    LET project == get_project_by_name(d, project_name)
    IN  IF project = None THEN [db |-> d, status |-> 404]
        ELSE [db |-> [d EXCEPT
                        !.snapshots = Restrict(@, {s \in DOMAIN @ :
                                                      @[s].project_name /= project_name}),
                        !.summaries = Restrict(@, {s \in DOMAIN @ :
                                                      @[s].project_name /= project_name}),
                        !.projects = Remove(@, project)],
              status |-> 200]

\* DELETE /projects/{project_name}/discard, up to its commit
discard_project(d, project_name) ==
    LET project == get_project_by_name(d, project_name)
    IN  IF project = None THEN [db |-> d, status |-> 404]
        ELSE [db |-> [d EXCEPT
                        !.snapshots = Restrict(@, {s \in DOMAIN @ :
                                                      @[s].project_id /= project}),
                        !.summaries = Restrict(@, {s \in DOMAIN @ :
                                                      @[s].project_id /= project}),
                        !.projects = Remove(@, project)],
              status |-> 200]

DiscardProject(project_name) ==
    LET r == discard_project(DB, project_name)
    IN  /\ Commit(r.db)
        /\ resp' = Resp("discard_project", r.status)
        /\ StoreRequest

\* Projects made, filled by lab orders, duplicated and discarded.
NextDiscard ==
    \/ \E n \in ProjectNames : create_project(n)
    \/ \E body \in DOMAIN LabFeesOrderCreate : create_lab_fees_order(body)
    \/ \E n \in ProjectNames : duplicate_active_snapshot(n)
    \/ \E n \in ProjectNames : DiscardProject(n)

SpecDiscard == Init /\ [][NextDiscard]_vars

\* ------------------------------------------------------------ project lookup
LookupNames == {"P", "Q"}

\* get_or_create_project run to completion, followed by the caller's commit;
\* an empty name raises ValueError.
GetOrCreateProject(project_name) ==
    IF ~Truthy(project_name)
    THEN /\ Commit(DB)
         /\ resp' = Resp("get_or_create_project", 500)
         /\ StoreRequest
    ELSE LET g == get_or_create_project(DB, project_name)
         IN  /\ Commit(g.db)
             /\ resp' = [Resp("get_or_create_project", 200) EXCEPT !.project_id = g.id]
             /\ StoreRequest

\* Projects are created (names may repeat), touched and looked up by name.
NextProjects ==
    \/ \E n \in LookupNames : create_project(n)
    \/ \E p \in DOMAIN projects : UpdateSummary(p, None, 500, None, None)
    \/ \E n \in LookupNames \cup {""} : GetOrCreateProject(n)

SpecProjects == Init /\ [][NextProjects]_vars

\* ------------------------------------------------------------ save and close
\* POST /projects/{project_name}/snapshot/save-and-close, up to its commit;
\* active is the row returned by the .first() of lines 277-280.  A snapshot
\* added at line 292 has no id yet when line 300 reads it.
save_and_close_project(d, project_name, active) ==
    LET g == get_or_create_project(d, project_name)
        d1 == IF active /= None THEN g.db
              ELSE InsertSnapshot(g.db, EstimateSnapshot(g.id, project_name, TRUE,
                                                         NullBlob, NullBlob, NullBlob, 0))
    IN  [db |-> update_project_summary(d1, g.id, None, None, None, active),
         snapshot_id |-> IF active /= None THEN active ELSE g.db.nextSnapshotId]

SaveAndClose(project_name) ==
    \E active \in FirstActiveByName(DB, project_name) :
        LET r == save_and_close_project(DB, project_name, active)
        IN  /\ Commit(r.db)
            /\ resp' = [Resp("save_and_close", 200) EXCEPT !.snapshot_id = r.snapshot_id]
            /\ StoreRequest

\* The snapshot store with the save-and-close endpoint.
NextClose ==
    \/ Next
    \/ \E n \in ProjectNames : SaveAndClose(n)

SpecClose == Init /\ [][NextClose]_vars

\* ------------------------------------------------------------ rollback
\* POST /projects/{project_name}/snapshots/duplicate on a project with an
\* active snapshot, and DELETE /snapshots/{id} of the snapshot it returned,
\* served back to back: two requests, two commits.
RollbackRoundTrip(project_name) ==
    \E active \in FirstActiveByName(DB, project_name) \ {None} :
        LET r == create_new_snapshot_from_active(DB, project_name, active)
            committed == [r.db EXCEPT !.now = now + TicksPerRequest]
        IN  /\ Bounded(r.db)
            /\ now + TicksPerRequest < MaxRequests * TicksPerRequest
            /\ \E first \in RemainingHeads(committed, r.snapshot_id) :
                   LET q == delete_snapshot(committed, r.snapshot_id, first)
                   IN  /\ projects' = q.db.projects
                       /\ snapshots' = q.db.snapshots
                       /\ summaries' = q.db.summaries
                       /\ nextProjectId' = q.db.nextProjectId
                       /\ nextSnapshotId' = q.db.nextSnapshotId
                       /\ nextSummaryId' = q.db.nextSummaryId
                       /\ now' = now + 2 * TicksPerRequest
                       /\ resp' = [Resp("delete", q.status) EXCEPT
                                       !.snapshot_id = r.snapshot_id,
                                       !.was_active = q.was_active,
                                       !.new_active_set = q.new_active_set]
            /\ StoreRequest

\* The snapshot store with revisions started and rolled back.
NextRollback ==
    \/ Next
    \/ \E n \in ProjectNames : RollbackRoundTrip(n)

SpecRollback == Init /\ [][NextRollback]_vars

\* ==================================================================
\* Properties of the snapshot store (specification Spec)
\* ==================================================================
ProjectIdsInUse == DOMAIN projects \cup {snapshots[s].project_id : s \in DOMAIN snapshots}

Blobs(snap) == <<snap.hrs_estimator_data, snap.lab_fees_data, snap.logistics_data>>

\* C1: with requests served one at a time from an empty store, no project
\* ever has more than one snapshot with is_active = true.
C1_SingleActive ==
    \A p \in ProjectIdsInUse : Cardinality(ActiveOf(DB, p)) <= 1

\* A delete has just re-elected among several snapshots, one of them active.
C1_Witness ==
    /\ resp.op = "delete"
    /\ resp.new_active_set
    /\ \E p \in ProjectIdsInUse :
           /\ Cardinality(SnapshotsOf(DB, p)) >= 2
           /\ Cardinality(ActiveOf(DB, p)) = 1

\* C3: a delete that removes a project's active snapshot while others remain
\* leaves active exactly one remaining snapshot, one whose updated_at was the
\* most recent among the remaining ones.
C3_ReelectMostRecent ==
    [][\A s \in DOMAIN snapshots :
          (DeleteSnapshot(s) /\ snapshots[s].is_active
              /\ SnapshotsOf(DB, snapshots[s].project_id) /= {s})
          => LET remaining == SnapshotsOf(DB, snapshots[s].project_id) \ {s}
             IN  \E b \in remaining :
                    /\ \A o \in remaining :
                           snapshots[o].updated_at <= snapshots[b].updated_at
                    /\ snapshots'[b].is_active
                    /\ \A o \in remaining \ {b} : ~snapshots'[o].is_active]_vars

\* The active snapshot was deleted and a snapshot that had been deactivated
\* earlier (it has been updated since its creation) is active again.
C3_Witness ==
    /\ resp.op = "delete"
    /\ resp.was_active
    /\ resp.new_active_set
    /\ \E a \in DOMAIN snapshots :
           /\ snapshots[a].is_active
           /\ snapshots[a].updated_at > snapshots[a].created_at
           /\ Cardinality(SnapshotsOf(DB, snapshots[a].project_id)) >= 2

\* C4: after every request, a project that has any snapshot has exactly one
\* active snapshot.
C4_ActiveWheneverAny ==
    \A p \in ProjectIdsInUse :
        SnapshotsOf(DB, p) /= {} => Cardinality(ActiveOf(DB, p)) = 1

\* The active snapshot was deleted and a successor was elected.
C4_Witness ==
    /\ resp.op = "delete"
    /\ resp.was_active
    /\ \E p \in ProjectIdsInUse : Cardinality(ActiveOf(DB, p)) = 1

\* C5: duplicate_active adds exactly one snapshot, which is active; with an
\* active snapshot S before the call, S is kept, is inactive afterwards and
\* the new snapshot carries S's three blobs; with none, the new snapshot's
\* blobs are empty; every snapshot that existed keeps its blobs.
C5_Duplicate ==
    [][\A name \in ProjectNames :
          duplicate_active_snapshot(name)
          => LET new == resp'.snapshot_id
                 pid == snapshots'[new].project_id
                 act == ActiveOf(DB, pid)
             IN  /\ new \notin DOMAIN snapshots
                 /\ DOMAIN snapshots' = DOMAIN snapshots \cup {new}
                 /\ snapshots'[new].is_active
                 /\ projects'[pid].name = name
                 /\ \A o \in DOMAIN snapshots :
                        /\ Blobs(snapshots'[o]) = Blobs(snapshots[o])
                        /\ snapshots'[o].project_id = snapshots[o].project_id
                        /\ o \notin act => snapshots'[o].is_active = snapshots[o].is_active
                 /\ \A a \in act :
                        /\ ~snapshots'[a].is_active
                        /\ Blobs(snapshots'[new]) = Blobs(snapshots[a])
                 /\ act = {} =>
                        Blobs(snapshots'[new]) = <<NullBlob, NullBlob, NullBlob>>]_vars

\* A populated active snapshot has been duplicated.
C5_Witness ==
    /\ resp.op = "duplicate_active"
    /\ resp.snapshot_id \in DOMAIN snapshots
    /\ snapshots[resp.snapshot_id].is_active
    /\ ~snapshots[resp.snapshot_id].lab_fees_data.isnull
    /\ \E o \in DOMAIN snapshots :
           /\ o /= resp.snapshot_id
           /\ ~snapshots[o].is_active
           /\ snapshots[o].project_id = snapshots[resp.snapshot_id].project_id
           /\ Blobs(snapshots[o]) = Blobs(snapshots[resp.snapshot_id])

\* C6: save_module with an empty project name returns no snapshot id and
\* changes no project, snapshot or summary row.
C6_EmptyNameNoOp ==
    [][\A m \in Modules, p \in Payloads :
          SaveModule("", m, p.inputs, p.outputs)
          => /\ resp'.snapshot_id = None
             /\ UNCHANGED <<projects, snapshots, summaries>>]_vars

\* The empty-name call was made on a store that already holds data.
C6_Witness ==
    /\ resp.op = "save_module"
    /\ resp.snapshot_id = None
    /\ DOMAIN projects /= {}
    /\ DOMAIN snapshots /= {}

\* C7: save_module on a project that has an active snapshot adds no snapshot,
\* writes {inputs, outputs} into that snapshot's slot for the module and
\* leaves its other two slots, its is_active flag and every other snapshot
\* as they were.
C7_SaveInPlace ==
    [][\A name \in ProjectNames, m \in Modules, p \in Payloads :
          (SaveModule(name, m, p.inputs, p.outputs)
              /\ FirstActiveByName(DB, name) /= {None})
          => LET a == resp'.snapshot_id
             IN  /\ a \in FirstActiveByName(DB, name)
                 /\ DOMAIN snapshots' = DOMAIN snapshots
                 /\ Slot(snapshots'[a], m) = ModuleData(p.inputs, p.outputs)
                 /\ \A o \in Modules \ {m} :
                        Slot(snapshots'[a], o) = Slot(snapshots[a], o)
                 /\ snapshots'[a].is_active = snapshots[a].is_active
                 /\ snapshots'[a].project_id = snapshots[a].project_id
                 /\ \A o \in DOMAIN snapshots \ {a} : snapshots'[o] = snapshots[o]]_vars

\* An existing active snapshot was updated in place and now holds the data
\* of two modules, next to another snapshot.
C7_Witness ==
    /\ resp.op = "save_module"
    /\ resp.snapshot_id \in DOMAIN snapshots
    /\ LET a == snapshots[resp.snapshot_id]
       IN  /\ a.updated_at > a.created_at
           /\ a.is_active
           /\ Cardinality({m \in Modules : ~Slot(a, m).isnull}) >= 2
    /\ Cardinality(DOMAIN snapshots) >= 2

\* The project's denormalized total for a module.
ProjectTotal(p, module_name) ==
    IF module_name = "hrs_estimator" THEN p.hrs_estimator_total
    ELSE IF module_name = "lab" THEN p.lab_fees_total
    ELSE p.logistics_total

\* C10: for every module whose slot in a project's active snapshot records a
\* total, the project's denormalized total for that module equals it.
C10_NoDrift ==
    \A a \in DOMAIN snapshots : \A m \in Modules :
        (/\ snapshots[a].is_active
         /\ snapshots[a].project_id \in DOMAIN projects
         /\ ~Slot(snapshots[a], m).isnull
         /\ ModuleTotal(m, Slot(snapshots[a], m).outputs) /= None)
        => ProjectTotal(projects[snapshots[a].project_id], m)
               = ModuleTotal(m, Slot(snapshots[a], m).outputs)

\* ==================================================================
\* Properties of racing saves (specification SpecRace)
\* ==================================================================

\* Two finished saves of one project that both found no active snapshot and
\* whose defensive deactivation hit no row.
BothSawNoActive(r1, r2) ==
    /\ r1 /= r2
    /\ tx[r1].pc = "done" /\ tx[r2].pc = "done"
    /\ tx[r1].project_id = tx[r2].project_id
    /\ tx[r1].active = None /\ tx[r2].active = None
    /\ tx[r1].deactivated = {} /\ tx[r2].deactivated = {}

\* C2: when two save_module calls for one project interleave so that both
\* observe that no active snapshot exists, each inserts one and nothing rejects
\* either insert: both new snapshots are stored with is_active = TRUE, so the
\* project has two active snapshots.
C2_RaceTwoActive ==
    \A r1 \in Requests, r2 \in Requests :
        BothSawNoActive(r1, r2) =>
            /\ {tx[r1].new_id, tx[r2].new_id} \subseteq ActiveOf(DB, tx[r1].project_id)
            /\ tx[r1].new_id /= tx[r2].new_id
            /\ Cardinality(ActiveOf(DB, tx[r1].project_id)) >= 2

C2_Witness ==
    \E r1 \in Requests, r2 \in Requests :
        /\ BothSawNoActive(r1, r2)
        /\ Cardinality(ActiveOf(DB, tx[r1].project_id)) = 2

\* ==================================================================
\* Properties of the engines (specification SpecEngines)
\* ==================================================================

\* The project named project_name exists and the module's slot of its active
\* snapshot holds these inputs and outputs.
SlotHolds(project_name, module_name, inputs, outputs) ==
    \E p \in DOMAIN projects :
        /\ projects[p].name = project_name
        /\ \E a \in ActiveOf(DB, p) :
               Slot(snapshots[a], module_name) = ModuleData(inputs, outputs)

\* The project named project_name carries total as its total of the module and
\* the sum of its three module totals as grand_total.
TotalsHold(project_name, module_name, total) ==
    \E p \in DOMAIN projects :
        /\ projects[p].name = project_name
        /\ ProjectTotal(projects[p], module_name) = total
        /\ projects[p].grand_total = Or0(projects[p].hrs_estimator_total)
                                     + Or0(projects[p].lab_fees_total)
                                     + Or0(projects[p].logistics_total)

\* total_cost of the order a lab request body produces
LabTotal(body) ==
    LET order == LabFeesOrderCreate[body]
        priced == Priced(order.order_details)
        staff == order.staff_assignments
    IN  SumSeq([i \in DOMAIN priced |-> PriceOf(priced[i]) * priced[i].quantity])
        + SumSeq([i \in DOMAIN staff |->
                     LabFeesStaffAssignment(0, staff[i], 0).total_cost])

\* C8: after a successful create call of any of the three engines with a
\* non-empty project_name, the project exists and the module's slot of its
\* active snapshot holds the inputs and outputs of the call.
C8_EnginesWriteSnapshot ==
    [][/\ \A body \in DOMAIN LabFeesOrderCreate :
              (/\ create_lab_fees_order(body)
               /\ Truthy(LabFeesOrderCreate[body].project_name)
               /\ resp'.status = 200)
              => SlotHolds(LabFeesOrderCreate[body].project_name, "lab", body,
                           MkOutputs(LabTotal(body), None))'
       /\ \A body \in DOMAIN HRSEstimationCreate :
              (/\ create_estimate(body)
               /\ Truthy(HRSEstimationCreate[body].project_name)
               /\ resp'.status = 200)
              => SlotHolds(HRSEstimationCreate[body].project_name, "hrs_estimator", body,
                           MkOutputs(HRSEstimation(HRSEstimationCreate[body], 0).total_cost,
                                     None))'
       /\ \A body \in DOMAIN LogisticsEstimationCreate :
              (/\ create_logistics_estimate(body)
               /\ Truthy(LogisticsEstimationCreate[body].project_name)
               /\ resp'.status = 200)
              => SlotHolds(LogisticsEstimationCreate[body].project_name, "logistics", body,
                           MkOutputs(None,
                                     LogisticsEstimation(LogisticsEstimationCreate[body], 0)
                                         .total_logistics_cost))']_vars

\* C9: after a successful create call of any of the three engines with a
\* non-empty project_name, the project's total of that module equals the total
\* of the estimate just produced and grand_total is the sum of the project's
\* three module totals.
C9_EnginesUpdateProjectTotals ==
    [][/\ \A body \in DOMAIN LabFeesOrderCreate :
              (/\ create_lab_fees_order(body)
               /\ Truthy(LabFeesOrderCreate[body].project_name)
               /\ resp'.status = 200)
              => TotalsHold(LabFeesOrderCreate[body].project_name, "lab",
                            LabTotal(body))'
       /\ \A body \in DOMAIN HRSEstimationCreate :
              (/\ create_estimate(body)
               /\ Truthy(HRSEstimationCreate[body].project_name)
               /\ resp'.status = 200)
              => TotalsHold(HRSEstimationCreate[body].project_name, "hrs_estimator",
                            HRSEstimation(HRSEstimationCreate[body], 0).total_cost)'
       /\ \A body \in DOMAIN LogisticsEstimationCreate :
              (/\ create_logistics_estimate(body)
               /\ Truthy(LogisticsEstimationCreate[body].project_name)
               /\ resp'.status = 200)
              => TotalsHold(LogisticsEstimationCreate[body].project_name, "logistics",
                            LogisticsEstimation(LogisticsEstimationCreate[body], 0)
                                .total_logistics_cost)']_vars

\* ==================================================================
\* Properties of the lab engine under datastore failure (specification SpecFaults)
\* ==================================================================
\* The project named project_name has a summary row of the module with the
\* total, and carries the total as its own total of the module.
SummaryHolds(project_name, module_name, total) ==
    \E p \in DOMAIN projects :
        /\ projects[p].name = project_name
        /\ ProjectTotal(projects[p], module_name) = total
        /\ \E s \in SummaryOf(DB, p, module_name) : summaries[s].estimate_total = total

\* C11: create_lab_fees_order is atomic: a request with a project name that
\* commits its order row also commits the lab slot of the active snapshot and
\* the project's lab total, in every outcome of the call.
C11_LabOrderAtomic ==
    [][\A body \in DOMAIN LabFeesOrderCreate :
          (/\ \/ create_lab_fees_order(body)
              \/ create_lab_fees_order_interrupted(body)
           /\ Truthy(LabFeesOrderCreate[body].project_name)
           /\ nextOrderId \in DOMAIN orders')
          => /\ SlotHolds(LabFeesOrderCreate[body].project_name, "lab", body,
                          MkOutputs(LabTotal(body), None))'
             /\ SummaryHolds(LabFeesOrderCreate[body].project_name, "lab",
                             LabTotal(body))']_vars

\* ==================================================================
\* Properties of the project totals (specification SpecSummary)
\* ==================================================================
\* C12: after update_project_summary on an existing project, grand_total is
\* the sum of the three stored module totals with an absent total counted as
\* 0, and grand_total is None exactly when all three stored totals are absent
\* (a stored 0 counts as present).
C12_GrandTotal ==
    [][\A p \in DOMAIN projects, c \in SummaryCalls :
          UpdateSummary(p, c.hrs_estimator_total, c.lab_fees_total,
                        c.logistics_total, c.latest_snapshot_id)
          => LET q == projects'[p]
                 absent == /\ q.hrs_estimator_total = None
                           /\ q.lab_fees_total = None
                           /\ q.logistics_total = None
             IN  /\ (q.grand_total = None) <=> absent
                 /\ ~absent => q.grand_total = Or0(q.hrs_estimator_total)
                                               + Or0(q.lab_fees_total)
                                               + Or0(q.logistics_total)]_vars

\* C13: update_project_summary overwrites exactly the total fields passed
\* non-null: a call passing one module's total leaves the other two stored
\* totals as they were, a null latest_snapshot_id leaves latest_snapshot_id as
\* it was, and no other project is touched.
C13_SummaryFrame ==
    [][\A p \in DOMAIN projects, c \in SummaryCalls :
          UpdateSummary(p, c.hrs_estimator_total, c.lab_fees_total,
                        c.logistics_total, c.latest_snapshot_id)
          => /\ projects'[p].hrs_estimator_total =
                    IF c.hrs_estimator_total /= None THEN c.hrs_estimator_total
                    ELSE projects[p].hrs_estimator_total
             /\ projects'[p].lab_fees_total =
                    IF c.lab_fees_total /= None THEN c.lab_fees_total
                    ELSE projects[p].lab_fees_total
             /\ projects'[p].logistics_total =
                    IF c.logistics_total /= None THEN c.logistics_total
                    ELSE projects[p].logistics_total
             /\ projects'[p].latest_snapshot_id =
                    IF c.latest_snapshot_id /= None THEN c.latest_snapshot_id
                    ELSE projects[p].latest_snapshot_id
             /\ \A o \in DOMAIN projects \ {p} : projects'[o] = projects[o]]_vars

\* A project whose three totals and latest_snapshot_id were set by separate
\* calls: a later call with nulls has left the earlier values in place.
C13_Witness ==
    /\ resp.op = "update_project_summary"
    /\ \E p \in DOMAIN projects :
           /\ projects[p].hrs_estimator_total = 500
           /\ projects[p].lab_fees_total = 0
           /\ projects[p].logistics_total = None
           /\ projects[p].latest_snapshot_id = 1
           /\ projects[p].grand_total = 500

\* ==================================================================
\* Validation failures of the engines (specifications SpecFaults, SpecHrs)
\* ==================================================================
\* C14: create_lab_fees_order with a staff assignment whose role has no
\* LaborRate row answers 400 and commits nothing: no order row, no staff rows
\* (not even those of earlier valid assignments), no project, no snapshot
\* change and no summary change.
C14_LabInvalidRoleCommitsNothing ==
    [][\A body \in DOMAIN LabFeesOrderCreate :
          (/\ \E i \in DOMAIN LabFeesOrderCreate[body].staff_assignments :
                  LabFeesOrderCreate[body].staff_assignments[i].role
                      \notin DOMAIN LaborRate
           /\ create_lab_fees_order(body))
          => /\ resp'.status = 400
             /\ UNCHANGED <<orders, assignments, projects, snapshots, summaries>>]_vars

\* A lab request was refused for its second staff role after a first, valid one.
C14_Witness ==
    /\ resp.op = "create_lab_fees_order"
    /\ resp.status = 400
    /\ nextOrderId > 1
    /\ \A o \in 1..(nextOrderId - 1) : o \notin DOMAIN orders

\* C15: create_estimate of the HRS engine fails with a validation error and
\* persists nothing whenever the suggested hours are positive and the request
\* names no role to cost them with.
C15_HoursWithoutRoleRejected ==
    [][\A payload \in HrsPayloads :
          (/\ HRSEstimation(payload, 0).suggested_hours_final > 0
           /\ ~Truthy(payload.selected_role)
           /\ create_estimate_of(payload))
          => /\ resp'.status \in {400, 422}
             /\ UNCHANGED <<hrs_estimations, rates>>]_vars

\* C16: create_estimate with a selected_role that has no LaborRate row answers
\* 400 and commits nothing (no header, no line rows, no lab rate change); a
\* role of manual_labor_hours without a LaborRate row is skipped: it gets no
\* entry in manual_labor_costs and adds nothing to total_cost, while the
\* remaining roles are costed.
C16_UnknownRoles ==
    [][\A payload \in HrsPayloads :
          create_estimate_of(payload)
          => LET manual == payload.manual_labor_hours
             IN  IF Truthy(payload.selected_role)
                    /\ payload.selected_role \notin DOMAIN LaborRate
                 THEN /\ resp'.status = 400
                      /\ UNCHANGED <<hrs_estimations, rates, projects, snapshots,
                                     summaries>>
                 ELSE /\ resp'.status = 200
                      /\ LET est == hrs_estimations'[nextHrsEstimationId]
                         IN  /\ DOMAIN est.manual_labor_costs =
                                    {role \in DOMAIN manual : role \in DOMAIN LaborRate}
                             /\ \A role \in DOMAIN est.manual_labor_costs :
                                    est.manual_labor_costs[role] =
                                        RoundDiv(manual[role] * LaborRate[role], 100)
                             /\ est.total_cost =
                                    Or0(est.calculated_cost)
                                    + SumFun(est.manual_labor_costs)]_vars

\* An estimation was stored with a manual role skipped and another costed,
\* and a later request was refused for its selected_role.
C16_Witness ==
    /\ resp.op = "create_estimate"
    /\ resp.status = 400
    /\ \E e \in DOMAIN hrs_estimations :
           /\ DOMAIN hrs_estimations[e].manual_labor_costs = {"Accounting"}
           /\ hrs_estimations[e].manual_labor_costs["Accounting"] = 9536
           /\ hrs_estimations[e].calculated_cost = 36200
           /\ hrs_estimations[e].total_cost = 45736

\* C24: there is at most one ProjectEstimateSummary row per (project_id,
\* module_name), also when calls of save_or_update_module_summary for the same
\* pair interleave; a call served alone leaves the row of its pair holding
\* its estimate_total.
C24_SummaryUpsert ==
    [][/\ \A a, b \in DOMAIN summaries' :
             (/\ summaries'[a].project_id = summaries'[b].project_id
              /\ summaries'[a].module_name = summaries'[b].module_name) => a = b
       /\ \A n \in ProjectNames, m \in Modules, o \in SummaryOutputs :
             SaveSummaryAlone(n, m, o)
             => \E p \in DOMAIN projects' :
                   /\ projects'[p].name = n
                   /\ \E s \in DOMAIN summaries' :
                          /\ summaries'[s].project_id = p
                          /\ summaries'[s].module_name = m
                          /\ summaries'[s].estimate_total = ModuleTotal(m, o)]_vars

\* Two interleaved calls inserted the same pair: the second was rejected,
\* the first one's row is there.
C24_Witness ==
    /\ resp.op = "save_summary"
    /\ resp.status = 500
    /\ summaries /= <<>>

\* C23: for every basket, total_samples is the sum of the quantities and
\* total_lab_fees_cost the sum of price x quantity over exactly the (test,
\* turnaround) pairs that have a Rate; a pair without a Rate adds nothing and
\* raises no error; total_staff_labor_cost is the sum of count x
\* hours_per_person x hourly_rate over the staff assignments, and total_cost
\* is the sum of the two costs.
C23_LabTotals ==
    [][\A basket \in DOMAIN Baskets, crew \in DOMAIN Crews :
          create_lab_fees_order_of(LabOrderName(basket, crew), LabOrder(basket, crew))
          => LET lines == Baskets[basket]
                 staff == Crews[crew]
                 HasRate(l) == \E r \in DOMAIN rates :
                                  /\ rates[r].test_id = l.test_id
                                  /\ rates[r].turn_time_id = l.turn_time_id
                 Price(l) == rates[CHOOSE r \in DOMAIN rates :
                                      /\ rates[r].test_id = l.test_id
                                      /\ rates[r].turn_time_id = l.turn_time_id].price
                 samples == SumSeq([i \in DOMAIN lines |->
                                IF HasRate(lines[i]) THEN lines[i].quantity ELSE 0])
                 fees == SumSeq([i \in DOMAIN lines |->
                             IF HasRate(lines[i])
                             THEN Price(lines[i]) * lines[i].quantity ELSE 0])
                 labor == SumSeq([i \in DOMAIN staff |->
                              staff[i].count * staff[i].hours_per_person
                              * LaborRate[staff[i].role]])
             IN  /\ resp'.status = 200
                 /\ nextOrderId \in DOMAIN orders'
                 /\ orders'[nextOrderId].total_samples = samples
                 /\ orders'[nextOrderId].total_lab_fees_cost = fees
                 /\ orders'[nextOrderId].total_staff_labor_cost = labor
                 /\ orders'[nextOrderId].total_cost = fees + labor]_vars

\* The basket "mixed" with the crew "two": 3 samples without a Rate skipped,
\* 2 samples at 9.20, 6 hours at 72.40 and 1 hour at 95.36.
C23_Witness ==
    \E o \in DOMAIN orders :
        /\ orders[o].total_samples = 2
        /\ orders[o].total_lab_fees_cost = 1840
        /\ orders[o].total_staff_labor_cost = 52976
        /\ orders[o].total_cost = 54816
        /\ \E a \in ActiveOf(DB, 1) :
               snapshots[a].lab_fees_data.inputs = "mixed/two"

\* C22: derive_efficiency_factor is 1.0 for 1 sampler, 0.7 for 2 and 0.6 for
\* every n >= 3, and create_estimate uses the derived factor exactly when the
\* request carries no efficiency_factor: a supplied factor, 0 included, is
\* stored and applied to the field hours as given.
C22_EfficiencyFactor ==
    [][\A payload \in EfficiencyPayloads :
          create_estimate_of(payload)
          => LET est == hrs_estimations'[nextHrsEstimationId]
                 n == payload.field_staff_count
                 table == IF n = 1 THEN 100 ELSE IF n = 2 THEN 70 ELSE 60
                 eff == IF payload.efficiency_factor = None THEN table
                        ELSE payload.efficiency_factor
             IN  /\ est.efficiency_factor = eff
                 /\ est.suggested_hours_base = 500
                 /\ est.suggested_hours_final = 5 * eff]_vars

\* Estimations for three or more samplers: one with the derived factor 0.6
\* (3 hours), one with the supplied factor 0 (no hours).
C22_Witness ==
    \E a \in DOMAIN hrs_estimations, b \in DOMAIN hrs_estimations :
        /\ hrs_estimations[a].field_staff_count >= 3
        /\ hrs_estimations[a].efficiency_factor = 60
        /\ hrs_estimations[a].suggested_hours_final = 300
        /\ hrs_estimations[b].field_staff_count >= 3
        /\ hrs_estimations[b].efficiency_factor = 0
        /\ hrs_estimations[b].suggested_hours_final = 0

\* ==================================================================
\* Properties of the logistics engine (specification SpecLogistics)
\* ==================================================================
\* C17: create_logistics_estimate in flight mode, for a non-local project not
\* using a client vehicle, with a rental block whose rental_period_type is not
\* one of daily, weekly, monthly is rejected with a validation error and
\* commits nothing.
C17_RentalPeriodRejected ==
    [][\A payload \in ModePayloads :
          (/\ payload.site_access_mode = "flight"
           /\ ~payload.is_local_project
           /\ ~payload.use_client_vehicle
           /\ payload.rental.rental_period_type \notin RentalPeriodTypes
           /\ create_logistics_estimate_of(payload))
          => /\ resp'.status \in {400, 422}
             /\ UNCHANGED logistics_estimations]_vars

\* C18: with flight, rental and lodging blocks all supplied with positive
\* quantities and a known rental period, for every combination of access
\* mode, local project and client vehicle: total_flight_cost is non-zero
\* exactly for a non-local flight project, total_rental_cost exactly for a
\* non-local flight project without a client vehicle, and
\* total_lodging_room_cost and total_per_diem_cost exactly for a non-local
\* project.
C18_ModeGating ==
    [][\A payload \in ModePayloads :
          (/\ payload.rental.rental_period_type \in RentalPeriodTypes
           /\ create_logistics_estimate_of(payload))
          => LET est == logistics_estimations'[nextLogisticsEstimationId]
                 flight == payload.site_access_mode = "flight"
                 local == payload.is_local_project
             IN  /\ (est.total_flight_cost /= 0) <=> (flight /\ ~local)
                 /\ (est.total_rental_cost /= 0)
                        <=> (flight /\ ~local /\ ~payload.use_client_vehicle)
                 /\ (est.total_lodging_room_cost /= 0) <=> ~local
                 /\ (est.total_per_diem_cost /= 0) <=> ~local]_vars

\* A non-local flight estimate using a client vehicle (flights and lodging
\* charged, rental not) next to a non-local driving estimate (lodging only).
C18_Witness ==
    \E a \in DOMAIN logistics_estimations, b \in DOMAIN logistics_estimations :
        /\ logistics_estimations[a].site_access_mode = "flight"
        /\ ~logistics_estimations[a].is_local_project
        /\ logistics_estimations[a].use_client_vehicle
        /\ logistics_estimations[a].total_flight_cost > 0
        /\ logistics_estimations[a].total_rental_cost = 0
        /\ logistics_estimations[a].total_lodging_room_cost = 45000
        /\ logistics_estimations[a].total_per_diem_cost = 18000
        /\ logistics_estimations[b].site_access_mode = "driving"
        /\ ~logistics_estimations[b].is_local_project
        /\ logistics_estimations[b].total_flight_cost = 0
        /\ logistics_estimations[b].total_rental_cost = 0
        /\ logistics_estimations[b].total_lodging_room_cost = 45000

\* C19: a driving-mode roundtrip whose project_location is Anchorage in any
\* letter case, with cost_per_mile and anchorage_flat_fee both supplied, has
\* the roundtrip vehicle cost anchorage_flat_fee x project_duration_days,
\* whatever cost_per_mile, mpg, cost_per_gallon and one_way_miles are.
C19_AnchorageFlatFee ==
    [][\A payload \in AnchoragePayloads :
          create_logistics_estimate_of(payload)
          => LET est == logistics_estimations'[nextLogisticsEstimationId]
                 rt == payload.roundtrip_driving
             IN  /\ est.total_driving_fuel_cost =
                        rt.anchorage_flat_fee * rt.project_duration_days
                 /\ est.roundtrip_driving_miles =
                        2 * rt.one_way_miles * rt.project_duration_days]_vars

\* A 440 mile roundtrip to Anchorage at 2.00 per mile charged 2 days of the
\* 30.00 flat fee.
C19_Witness ==
    \E e \in DOMAIN logistics_estimations :
        /\ logistics_estimations[e].roundtrip_driving_miles = 440
        /\ logistics_estimations[e].total_driving_fuel_cost = 6000

\* daily_vehicle_cost of the request, in cents (lines 195-212)
DailyVehicleCost(payload) ==
    LET staff_list == StaffList(payload)
        rt == RoundtripDriving(payload, staff_list)
    IN  RoundCents(DailyDriving(payload, staff_list, rt.anchorage, rt.days).vehicle_cost)

\* C20: the daily-driving vehicle cost does not depend on the roundtrip block:
\* a request and the same request with another roundtrip project_location
\* have the same daily vehicle cost.
C20_DailyIndependentOfRoundtrip ==
    [][\A payload \in DailyPayloads, location \in {"Fairbanks", "Anchorage"} :
          create_logistics_estimate_of(payload)
          => DailyVehicleCost(payload) =
                 DailyVehicleCost([payload EXCEPT
                     !.roundtrip_driving.project_location = location])]_vars

\* C21: a non-local estimate without a lodging block has
\* total_lodging_room_cost = 0 and total_per_diem_cost = 0 for every
\* per_diem_rate and staff list; per diem accrues only with a lodging block
\* present, a positive staff count and a positive duration.
C21_PerDiemNeedsLodging ==
    [][\A payload \in LodgingPayloads :
          create_logistics_estimate_of(payload)
          => LET est == logistics_estimations'[nextLogisticsEstimationId]
                 l == payload.lodging
             IN  /\ ~l.present => /\ est.total_lodging_room_cost = 0
                                  /\ est.total_per_diem_cost = 0
                 /\ est.total_per_diem_cost /= 0
                        => /\ l.present
                           /\ est.total_staff_count > 0
                           /\ l.project_duration_days > 0
                 /\ (/\ l.present
                     /\ est.total_staff_count > 0
                     /\ l.project_duration_days > 0)
                        => est.total_per_diem_cost =
                               payload.per_diem_rate * est.total_staff_count
                               * l.project_duration_days]_vars

\* Two non-local estimates for two staff at a per diem rate of 60.00: one
\* without per diem or room cost, one with three nights of both.
C21_Witness ==
    \E a \in DOMAIN logistics_estimations, b \in DOMAIN logistics_estimations :
        /\ ~logistics_estimations[a].is_local_project
        /\ logistics_estimations[a].per_diem_rate = 6000
        /\ logistics_estimations[a].total_staff_count = 2
        /\ logistics_estimations[a].total_lodging_room_cost = 0
        /\ logistics_estimations[a].total_per_diem_cost = 0
        /\ logistics_estimations[b].per_diem_rate = 6000
        /\ logistics_estimations[b].total_staff_count = 2
        /\ logistics_estimations[b].total_lodging_room_cost = 90000
        /\ logistics_estimations[b].total_per_diem_cost = 36000

\* ==================================================================
\* Project lifecycle
\* ==================================================================

\* C25: a discard of name N that resolves to a project P removes P, every
\* EstimateSnapshot and every ProjectEstimateSummary row of P, and nothing
\* else: the other projects, those sharing the name N included, keep their
\* rows unchanged; a discard of a name matching no project answers not-found
\* and changes nothing.
C25_DiscardRemovesOneProject ==
    [][\A n \in ProjectNames :
          DiscardProject(n)
          => IF \A p \in DOMAIN projects : projects[p].name /= n
             THEN /\ resp'.status = 404
                  /\ UNCHANGED <<projects, snapshots, summaries>>
             ELSE /\ resp'.status = 200
                  /\ \E P \in DOMAIN projects :
                        /\ projects[P].name = n
                        /\ \A q \in DOMAIN projects :
                               projects[q].name = n
                               => projects[q].updated_at <= projects[P].updated_at
                        /\ P \notin DOMAIN projects'
                        /\ \A s \in DOMAIN snapshots' : snapshots'[s].project_id /= P
                        /\ \A s \in DOMAIN summaries' : summaries'[s].project_id /= P
                        /\ DOMAIN projects' = DOMAIN projects \ {P}
                        /\ \A q \in DOMAIN projects' : projects'[q] = projects[q]
                        /\ \A s \in DOMAIN snapshots :
                               snapshots[s].project_id /= P
                               => /\ s \in DOMAIN snapshots'
                                  /\ snapshots'[s] = snapshots[s]
                        /\ \A s \in DOMAIN summaries :
                               summaries[s].project_id /= P
                               => /\ s \in DOMAIN summaries'
                                  /\ summaries'[s] = summaries[s]
                        /\ DOMAIN snapshots' \subseteq DOMAIN snapshots
                        /\ DOMAIN summaries' \subseteq DOMAIN summaries]_vars

\* A project with a snapshot and a summary row was discarded while another
\* project of the same name keeps its snapshot and its summary row.
C25_Witness ==
    /\ resp.op = "discard_project"
    /\ resp.status = 200
    /\ nextSnapshotId > 2
    /\ nextSummaryId > 2
    /\ \E p \in DOMAIN projects :
          /\ \E s \in DOMAIN snapshots : snapshots[s].project_id = p
          /\ \E s \in DOMAIN summaries : summaries[s].project_id = p

\* C26: get_or_create_project, run alone, creates a project only when none
\* has the name; otherwise it creates nothing and returns the project of that
\* name with the greatest updated_at, so that a repeated call returns the
\* same id.
C26_GetOrCreate ==
    [][\A n \in LookupNames :
          GetOrCreateProject(n)
          => LET named == {p \in DOMAIN projects : projects[p].name = n}
                 id == resp'.project_id
             IN  /\ resp'.status = 200
                 /\ id \in DOMAIN projects'
                 /\ projects'[id].name = n
                 /\ IF named = {}
                    THEN /\ id \notin DOMAIN projects
                         /\ DOMAIN projects' = DOMAIN projects \cup {id}
                    ELSE /\ projects' = projects
                         /\ id \in named
                 /\ \A q \in DOMAIN projects' \ {id} :
                        /\ q \in DOMAIN projects
                        /\ projects'[q] = projects[q]
                        /\ projects[q].name = n
                           => projects[q].updated_at < projects'[id].updated_at]_vars

\* The lookup returned the older of two projects sharing a name, the one
\* updated last.
C26_Witness ==
    /\ resp.op = "get_or_create_project"
    /\ resp.status = 200
    /\ resp.project_id = 1
    /\ 2 \in DOMAIN projects
    /\ projects[2].name = projects[1].name

\* ==================================================================
\* Deletes after racing saves
\* ==================================================================

\* C27: deleting an active snapshot leaves exactly one active snapshot among
\* the remaining ones of its project when any remain, also when the project
\* held several active snapshots before the delete.
C27_DeleteRestoresSingleActive ==
    [][\A s \in SnapshotIds :
          (/\ s \in DOMAIN snapshots
           /\ snapshots[s].is_active
           /\ DeleteSnapshot(s))
          => LET remaining == {x \in DOMAIN snapshots' :
                                  snapshots'[x].project_id = snapshots[s].project_id}
             IN  /\ s \notin DOMAIN snapshots'
                 /\ remaining /= {}
                    => Cardinality({x \in remaining : snapshots'[x].is_active}) = 1]_vars

\* Three racing saves each inserted an active snapshot and none deactivated
\* another's; one of the three was deleted, and the delete deactivated one of
\* the two that remain.
C27_Witness ==
    /\ resp.op = "delete"
    /\ resp.was_active
    /\ resp.new_active_set
    /\ \A r \in Sessions : /\ tx[r].pc = "done"
                           /\ tx[r].new_id /= None
                           /\ tx[r].deactivated = {}
    /\ Cardinality(DOMAIN snapshots) = 2
    /\ \E x \in DOMAIN snapshots : ~snapshots[x].is_active

\* ==================================================================
\* Latest snapshot of a project
\* ==================================================================

\* C28: a Project's latest_snapshot_id, when set, is the id of an existing
\* snapshot that belongs to that project.
C28_LatestSnapshotExists ==
    \A p \in DOMAIN projects :
        projects[p].latest_snapshot_id /= None
        => /\ projects[p].latest_snapshot_id \in DOMAIN snapshots
           /\ snapshots[projects[p].latest_snapshot_id].project_id = p

\* ==================================================================
\* Rollback
\* ==================================================================

\* C29: for a project with active snapshot S, duplicate_active followed
\* immediately by the delete of the snapshot it created leaves the project
\* with the same set of snapshots, S active again, every other snapshot
\* inactive, and the three module blobs of every snapshot unchanged.
C29_RollbackRoundTrip ==
    [][\A n \in ProjectNames :
          RollbackRoundTrip(n)
          => \E P \in DOMAIN projects :
                /\ projects[P].name = n
                /\ \A q \in DOMAIN projects :
                       projects[q].name = n
                       => projects[q].updated_at <= projects[P].updated_at
                /\ \E S \in DOMAIN snapshots :
                      /\ snapshots[S].project_id = P
                      /\ snapshots[S].is_active
                      /\ DOMAIN snapshots' = DOMAIN snapshots
                      /\ snapshots'[S].is_active
                      /\ \A x \in DOMAIN snapshots' \ {S} :
                             snapshots'[x].project_id = P => ~snapshots'[x].is_active
                      /\ \A x \in DOMAIN snapshots :
                             /\ Blobs(snapshots'[x]) = Blobs(snapshots[x])
                             /\ snapshots'[x].project_id = snapshots[x].project_id]_vars

\* A revision of a project with two snapshots was started and rolled back:
\* the snapshot that was active is active again (it was touched twice since),
\* the older one is inactive, and the id of the discarded revision is spent.
C29_Witness ==
    /\ resp.op = "delete"
    /\ resp.was_active
    /\ resp.new_active_set
    /\ resp.snapshot_id = 3
    /\ DOMAIN snapshots = {1, 2}
    /\ snapshots[1].project_id = snapshots[2].project_id
    /\ snapshots[2].is_active
    /\ ~snapshots[1].is_active
    /\ now = MaxRequests * TicksPerRequest

\* ==================================================================
\* Deletes without re-election
\* ==================================================================

\* C30: deleting a snapshot that is not active removes that snapshot only:
\* every remaining snapshot, its is_active flag and its blobs included, and
\* every project is unchanged and the response reports new_active_set =
\* false; deleting an id that does not exist answers not-found and changes
\* nothing.
C30_DeleteInactiveFrame ==
    [][\A s \in SnapshotIds :
          DeleteSnapshot(s)
          => IF s \notin DOMAIN snapshots
             THEN /\ resp'.status = 404
                  /\ UNCHANGED <<projects, snapshots, summaries>>
             ELSE ~snapshots[s].is_active
                  => /\ resp'.status = 200
                     /\ ~resp'.was_active
                     /\ ~resp'.new_active_set
                     /\ DOMAIN snapshots' = DOMAIN snapshots \ {s}
                     /\ \A x \in DOMAIN snapshots' : snapshots'[x] = snapshots[x]
                     /\ UNCHANGED <<projects, summaries>>]_vars

\* An inactive snapshot was deleted from a project that keeps an active and
\* another inactive snapshot.
C30_Witness ==
    /\ resp.op = "delete"
    /\ resp.status = 200
    /\ ~resp.was_active
    /\ \E a, b \in DOMAIN snapshots :
          /\ a /= b
          /\ snapshots[a].project_id = snapshots[b].project_id
          /\ snapshots[a].is_active
          /\ ~snapshots[b].is_active

====
